---- MODULE Spec2Model ----
(***************************************************************************)
(* Real-time chat: conversation keys, the server's SocketHandler and       *)
(* MessageService, and the client's message store, send path,              *)
(* SocketService and typing hooks.                                         *)
(*                                                                         *)
(* The specifications share the variables:                                 *)
(*   SpecKey     the conversation-key functions applied to integer pairs   *)
(*   SpecMsg     message:send, room fan-out, the client store              *)
(*   SpecHistory message:send and GET /api/messages                        *)
(*   SpecTyping  the server's typing timers under a discrete clock         *)
(*   SpecFanout  typing broadcasts under changing room membership          *)
(*   SpecDisconnect  disconnect cleanup of the server's typing state       *)
(*   SpecClient  the client's SocketService and its socket events         *)
(*   SpecReconnect  reconnection with joined rooms and typing listeners    *)
(*   SpecClientTyping  useChatActions and useTyping under a client clock   *)
(*   SpecTarget  the typing hooks when the conversation target changes     *)
(*   SpecLoader  useMessagesLoader and its history requests                *)
(*   SpecGroup   groupMessages applied to bounded message lists            *)
(*   SpecFormat  formatTimestamp applied to dates around day boundaries    *)
(*   SpecMalformed  the SocketHandler's events with and without payload    *)
(*   SpecStore   the client store under history requests and message:new   *)
(*   SpecRooms   one client socket and the server handling what it emits   *)
(***************************************************************************)
EXTENDS Integers, Sequences, FiniteSets, TLC

(* ------------------------------ bounds -------------------------------- *)

\* conversation-key inputs range over -MaxId .. MaxId
MaxId == 12
\* the typing specification stops the clock after MaxTicks ticks
MaxTicks == 3
\* events a connection's inbox may hold
MaxInbox == 3
\* message:send events emitted in SpecMsg
MaxSends == 2
\* typing timers ever created in SpecTyping
MaxTimers == 2
\* typing:stop broadcasts recorded per (room, userId) after a start
MaxStops == 1
\* history requests useMessagesLoader issues in SpecLoader
MaxFetches == 2
\* times ChatTab is mounted in SpecLoader
MaxMounts == 2
\* messages in the argument of groupMessages
MaxMsgs == 3
\* sockets the client creates with io() in SpecClient
MaxSockets == 2
\* the client typing specification stops the clock after MaxClientTicks
\* ticks
MaxClientTicks == 6

(* --------------------------- program constants ------------------------ *)

\* socket.handler.ts: setTimeout(..., 5000)
D_server == 5000
\* MessageType.SYSTEM
SYSTEM == 0
\* new Date("2020-01-07T20:18:00.000Z"): the clock counts ms from that date
MatchDate == 0
\* the clock advances by at most TickMs at a time
TickMs == D_server \div 2
\* clock value at start (ms): the age of the oldest mock message, so that
\* every message timestamp of the model is a natural number
StartTime == 6 * 60 * 60 * 1000

Conns == {"c1", "c2"}
Users == {1, 2}
UserNames == {"Ann"}
\* the user each connection's client identifies as
\* the recipientId useTyping is mounted with
RecipientId == 2

OwnUser == [c \in Conns |-> IF c = "c1" THEN 1 ELSE 2]
IdRange == (0 - MaxId) .. MaxId

(* ------------------------ strings as char sequences ------------------- *)

DigitChar == <<"0", "1", "2", "3", "4", "5", "6", "7", "8", "9">>

RECURSIVE Digits(_)
Digits(n) ==
    IF n < 10 THEN <<DigitChar[n + 1]>>
    ELSE Digits(n \div 10) \o <<DigitChar[(n % 10) + 1]>>

\* JavaScript's Number -> string conversion inside a template literal,
\* for integers: an optional minus sign and the decimal digits
NumToString(n) ==
    IF n < 0 THEN <<"-">> \o Digits(0 - n) ELSE Digits(n)

Underscore == <<"_">>
Dash == <<"-">>
ConversationPrefix ==
    <<"c", "o", "n", "v", "e", "r", "s", "a", "t", "i", "o", "n", "_">>
ChatPrefix == <<"c", "h", "a", "t", "-">>

(* --------------------------- conversation keys ------------------------ *)

\* the pair taken in argument order, without comparing
SmallerLargerUnsorted(a, b) == <<a, b>>

\* const [smaller, larger] = a < b ? [a, b] : [b, a]
SmallerLarger(a, b) == IF a < b THEN <<a, b>> ELSE <<b, a>>

\* [a, b].sort((x, y) => x - y)
SortedIds(a, b) == IF a - b > 0 THEN <<b, a>> ELSE <<a, b>>

\* `${smaller}<sep>${larger}`
JoinIds(pair, sep) == NumToString(pair[1]) \o sep \o NumToString(pair[2])

\* SocketHandler.getRoomName
getRoomName(userId1, userId2) ==
    ConversationPrefix \o JoinIds(SmallerLarger(userId1, userId2), Underscore)

\* MessageService.getConversationKey
serviceConversationKey(userId1, userId2) ==
    JoinIds(SmallerLarger(userId1, userId2), Underscore)

\* messages.store getConversationKey
storeConversationKey(userId1, userId2) ==
    ConversationPrefix \o JoinIds(SmallerLarger(userId1, userId2), Underscore)

\* SocketService.getConversationKey
socketConversationKey(userId, recipientId) ==
    JoinIds(SmallerLarger(userId, recipientId), Underscore)

\* generateChatId
generateChatId(userId1, userId2) ==
    ChatPrefix \o JoinIds(SortedIds(userId1, userId2), Dash)

KeyFunctions ==
    {"getRoomName", "serviceConversationKey", "storeConversationKey",
     "socketConversationKey", "generateChatId"}

KeyBy(fn, a, b) ==
    CASE fn = "getRoomName" -> getRoomName(a, b)
      [] fn = "serviceConversationKey" -> serviceConversationKey(a, b)
      [] fn = "storeConversationKey" -> storeConversationKey(a, b)
      [] fn = "socketConversationKey" -> socketConversationKey(a, b)
      [] fn = "generateChatId" -> generateChatId(a, b)

(* ------------------------------- state -------------------------------- *)

VARIABLES
    keyFn,          \* SpecKey: the key function last applied ("none" at start)
    keyArgs,        \* SpecKey: the integer pair it is applied to
    keyResult,      \* SpecKey: the key it returned
    now,            \* the clock (ms)
    alive,          \* server: connection -> "open" | "closed"
    userIdOf,       \* server: socket.userId, <<>> when never identified
    rooms,          \* server: connection -> set of rooms the socket has joined
    conversations,  \* MessageService.conversations: key -> sequence of Message
    nextMsgId,      \* number of message ids generated so far
    sent,           \* history: the messages addMessage created, in order
    typingUsers,    \* SocketHandler.typingUsers: sequence of [room, typers]
    timers,         \* the scheduled, not cleared, not fired timeouts
    nextTimer,      \* number of timeouts created so far
    typingLog,      \* history: per (room, userId), the broadcasts since a start
    inbox,          \* connection -> events delivered to it, oldest first
    uplink,         \* connection -> events its client emitted, not yet handled
    store,          \* client: connection -> conversations of the messages store
    received,       \* history: connection -> messages its client handled
    httpResponse,   \* the last response of GET /api/messages
    svc,            \* client: the fields of the SocketService singleton
    transports,     \* client: the sockets io() created, by handle
    emits,          \* client: what the last client step emitted, in order
    returned,       \* client: the handle the last connect() returned
    called,         \* history: the client method or handler that ran last
    typingHook,     \* client: refs and state of useTyping
    chatActions,    \* client: refs of useChatActions
    clientLog,      \* history: when setTyping(true) was last called, when
                    \* and for whom typing:start was last emitted, and the
                    \* typing:stop emissions of the typing session
    loader,         \* client: useMessagesLoader, its props and its requests
    grouping,       \* client: the argument of groupMessages and what it
                    \* returned for it, for a permutation and for the
                    \* flattened result
    formatting,     \* client: the argument of formatTimestamp, the local
                    \* time of the call and what it returned
    thrown          \* server: the exception that escaped the handler of
                    \* the last event without payload, <<>> when none did

keyVars == <<keyFn, keyArgs, keyResult>>
sockVars == <<alive, userIdOf, rooms>>
msgVars == <<conversations, nextMsgId, sent>>
typingVars == <<typingUsers, timers, nextTimer, typingLog>>
clientVars == <<uplink, store, received>>
svcVars == <<svc, transports, emits, returned, called>>
hookVars ==
    <<typingHook, chatActions, clientLog, loader, grouping, formatting,
      thrown>>

vars == <<keyFn, keyArgs, keyResult, now, alive, userIdOf, rooms,
          conversations, nextMsgId, sent, typingUsers, timers, nextTimer,
          typingLog, inbox, uplink, store, received, httpResponse, svc,
          transports, emits, returned, called, typingHook, chatActions,
          clientLog, loader, grouping, formatting, thrown>>

EmptyMap == <<>>

\* formatTimestamp not called
NoFormatting == [phase |-> "none", date |-> <<>>, now |-> <<>>, result |-> <<>>]

\* groupMessages not called
NoGrouping ==
    [phase |-> "none", messages |-> <<>>, result |-> <<>>,
     permuted |-> <<>>, resultPermuted |-> <<>>, regrouped |-> <<>>]

\* a Map or object lookup with a default for an absent key
Lookup(map, key, default) ==
    IF key \in DOMAIN map THEN map[key] ELSE default

\* map.set(key, value) / { ...obj, [key]: value }
MapSet(map, key, value) ==
    [k \in (DOMAIN map) \cup {key} |-> IF k = key THEN value ELSE map[k]]

\* map.delete(key)
MapDelete(map, key) == [k \in (DOMAIN map) \ {key} |-> map[k]]

(* ----------------------- socket.io room broadcast --------------------- *)

\* io.to(room).emit(ev): every socket in the room
\* socket.to(room).emit(ev): every socket in the room except the sender
ToRoom(inb, room, except, ev) ==
    [d \in Conns |->
        IF room \in rooms[d] /\ d \notin except
        THEN Append(inb[d], ev) ELSE inb[d]]

InboxFits(inb) == \A d \in Conns : Len(inb[d]) <= MaxInbox

(* --------------------------- initial state ---------------------------- *)

NoResponse == [status |-> 0, error |-> "", messages |-> <<>>]

ServerInit ==
    /\ now = StartTime
    /\ thrown = <<>>
    /\ alive = [c \in Conns |-> "open"]
    /\ userIdOf = [c \in Conns |-> <<>>]
    /\ rooms = [c \in Conns |-> {}]
    /\ conversations = EmptyMap
    /\ nextMsgId = 0
    /\ sent = <<>>
    /\ typingUsers = <<>>
    /\ timers = {}
    /\ nextTimer = 0
    /\ typingLog = EmptyMap
    /\ inbox = [c \in Conns |-> <<>>]
    /\ uplink = [c \in Conns |-> <<>>]
    /\ store = [c \in Conns |-> EmptyMap]
    /\ received = [c \in Conns |-> <<>>]
    /\ httpResponse = NoResponse
    /\ svc = [socket |-> 0, currentUserId |-> <<>>,
              joinedConversations |-> <<>>, isConnecting |-> FALSE]
    /\ transports = <<>>
    /\ emits = <<>>
    /\ returned = 0
    /\ called = "nothing"
    /\ typingHook = [isTypingRef |-> FALSE, typingTimeoutRef |-> <<>>,
                     typingUsers |-> <<>>, mounted |-> FALSE,
                     listeningOn |-> 0, recipientId |-> RecipientId]
    /\ chatActions = [lastTypingRef |-> 0, typingTimeoutRef |-> <<>>,
                      stopFor |-> 0]
    /\ clientLog = [lastCall |-> <<>>, lastStart |-> <<>>,
                    sessionStops |-> 0, startFor |-> 0]
    /\ loader = [mounted |-> FALSE, instance |-> 0, loadingRef |-> FALSE,
                 recipientId |-> 0, fetches |-> {}, issued |-> 0,
                 logged |-> 0]

(* ------------------------------ SpecKey ------------------------------- *)

InitKey ==
    /\ keyFn = "none"
    /\ keyArgs \in IdRange \X IdRange
    /\ keyResult = <<>>
    /\ grouping = NoGrouping
    /\ formatting = NoFormatting
    /\ ServerInit

ApplyKey(fn) ==
    /\ keyFn' = fn
    /\ keyResult' = KeyBy(fn, keyArgs[1], keyArgs[2])
    /\ UNCHANGED <<keyArgs, svcVars, hookVars, now, sockVars, msgVars, typingVars, inbox,
                   clientVars, httpResponse>>

NextKey == \E fn \in KeyFunctions : ApplyKey(fn)

SpecKey == InitKey /\ [][NextKey]_vars

\* C1: every conversation-key function returns for (a, b) the key it returns
\* for (b, a), and no other unordered pair of integers gets that key.
C1_KeySymmetricInjective ==
    keyFn # "none" =>
        /\ keyResult = KeyBy(keyFn, keyArgs[2], keyArgs[1])
        /\ \A c \in IdRange, d \in IdRange :
              KeyBy(keyFn, c, d) = keyResult
                  => {c, d} = {keyArgs[1], keyArgs[2]}

\* a key was computed for a pair given larger-first, one id negative and
\* the other of two digits
C1_Witness ==
    /\ keyFn = "generateChatId"
    /\ keyArgs = <<11, 0 - 2>>
    /\ keyResult = <<"c", "h", "a", "t", "-", "-", "2", "-", "1", "1">>

(* --------------------- SocketHandler: connections --------------------- *)

Pairs == Users \X Users

\* the (userId, recipientId) payloads of the typing events of SpecTyping:
\* two users of one room, and one user in two rooms
TypingPairs == {<<1, 2>>, <<2, 1>>, <<1, 1>>}

\* the (userId, recipientId) payloads of the join and leave events: the
\* conversation of users 1 and 2, named from either side
JoinPairs == {<<1, 2>>, <<2, 1>>}

Truthy(n) == n # 0

\* io.to(room).emit(ev)
IoTo(inb, roomName, ev) == ToRoom(inb, roomName, {}, ev)

\* socket.to(room).emit(ev)
SocketTo(inb, c, roomName, ev) == ToRoom(inb, roomName, {c}, ev)

\* socket.on("user:identify"). The handler answers "user:identified" to the
\* socket; no client code listens for that event, so no inbox holds it.
UserIdentify(c, userId) ==
    /\ alive[c] = "open"
    /\ userIdOf' = [userIdOf EXCEPT ![c] = <<userId>>]
    /\ UNCHANGED <<keyVars, svcVars, hookVars,
                   now, alive, rooms, msgVars, typingVars, inbox,
                   clientVars, httpResponse>>

\* socket.on("conversation:join"). The handler also emits "user:joined" to
\* the room; no client code listens for that event, so no inbox holds it.
ConversationJoin(c, userId, recipientId) ==
    LET roomName == getRoomName(userId, recipientId) IN
    /\ alive[c] = "open"
    /\ rooms' = [rooms EXCEPT ![c] = @ \cup {roomName}]
    /\ UNCHANGED <<keyVars, svcVars, hookVars,
                   now, alive, userIdOf, msgVars, typingVars,
                   inbox, clientVars, httpResponse>>

\* socket.on("conversation:leave")
ConversationLeave(c, userId, recipientId) ==
    LET roomName == getRoomName(userId, recipientId) IN
    /\ alive[c] = "open"
    /\ rooms' = [rooms EXCEPT ![c] = @ \ {roomName}]
    /\ UNCHANGED <<keyVars, svcVars, hookVars,
                   now, alive, userIdOf, msgVars, typingVars,
                   inbox, clientVars, httpResponse>>

(* ----------------------- SocketHandler: typing ------------------------ *)

\* index of the room's entry in typingUsers, 0 when the Map has none
RoomIndex(tu, roomName) ==
    IF \E i \in 1..Len(tu) : tu[i].room = roomName
    THEN CHOOSE i \in 1..Len(tu) : tu[i].room = roomName
    ELSE 0

\* if (!this.typingUsers.has(roomName)) this.typingUsers.set(roomName, new Map())
EnsureRoom(tu, roomName) ==
    IF RoomIndex(tu, roomName) = 0
    THEN Append(tu, [room |-> roomName, typers |-> EmptyMap])
    ELSE tu

\* this.typingUsers.get(roomName), the empty Map standing for undefined
RoomTypers(tu, roomName) ==
    IF RoomIndex(tu, roomName) = 0 THEN EmptyMap
    ELSE tu[RoomIndex(tu, roomName)].typers

SetRoomTypers(tu, roomName, typers) ==
    [tu EXCEPT ![RoomIndex(tu, roomName)].typers = typers]

\* clearTimeout(handle)
ClearTimeout(ts, handle) == ts \ {handle}

\* the start handler leaving the user's earlier timeout scheduled
KeepExisting(ts, roomTypers, userId) == ts

\* const existingTimeout = roomTypers.get(data.userId);
\* if (existingTimeout) clearTimeout(existingTimeout);
CancelExisting(ts, roomTypers, userId) ==
    IF userId \in DOMAIN roomTypers
    THEN ClearTimeout(ts, roomTypers[userId])
    ELSE ts

\* a refreshed timeout that keeps the due time of the one it replaces
NewTimeoutNotReset(c, roomName, userId, recipientId) ==
    LET old == {t \in timers : t.room = roomName /\ t.userId = userId} IN
    [room |-> roomName, userId |-> userId, recipientId |-> recipientId,
     socket |-> c,
     due |-> IF old = {} THEN now + D_server ELSE (CHOOSE t \in old : TRUE).due]

\* setTimeout(callback, 5000): the timeout object the start handler stores
NewTimeout(c, roomName, userId, recipientId) ==
    [room |-> roomName, userId |-> userId, recipientId |-> recipientId,
     socket |-> c, due |-> now + D_server]

TypingStartEvent(userId, recipientId, userName) ==
    [ev |-> "typing:start", userId |-> userId, recipientId |-> recipientId,
     userName |-> userName]

TypingStopEvent(userId, recipientId) ==
    [ev |-> "typing:stop", userId |-> userId, recipientId |-> recipientId]

\* a start broadcast sent to the whole room, the sender included
StartBroadcastToAll(inb, c, roomName, data) == IoTo(inb, roomName, data)

\* socket.to(roomName).emit("typing:start", data)
StartBroadcast(inb, c, roomName, data) == SocketTo(inb, c, roomName, data)

(* history of the typing broadcasts, per (room, userId) that has had a     *)
(* typing:start: the number of starts in the current run of consecutive    *)
(* starts, the time of the first and of the latest start of the run, and   *)
(* the causes of the typing:stop broadcasts made since the latest start,   *)
(* with the time of the expiry among them. The start times are kept while  *)
(* an expiry can follow or has followed, and are 0 after that.             *)
LogStart(log, roomName, userId) ==
    LET k == <<roomName, userId>>
        continues == k \in DOMAIN log /\ log[k].stops = <<>>
    IN MapSet(log, k,
              [starts |-> IF continues THEN log[k].starts + 1 ELSE 1,
               runStartAt |-> IF continues THEN log[k].runStartAt ELSE now,
               startAt |-> now,
               stops |-> <<>>,
               expiredAt |-> 0])

LogStop(log, roomName, userId, cause) ==
    LET k == <<roomName, userId>> IN
    IF k \notin DOMAIN log THEN log
    ELSE LET first == log[k].stops = <<>>
             keep == IF first THEN cause = "expiry"
                     ELSE log[k].stops[1] = "expiry"
         IN MapSet(log, k,
                   [starts |-> log[k].starts,
                    runStartAt |-> IF keep THEN log[k].runStartAt ELSE 0,
                    startAt |-> IF keep THEN log[k].startAt ELSE 0,
                    stops |-> Append(log[k].stops, cause),
                    expiredAt |-> IF cause = "expiry" THEN now
                                  ELSE log[k].expiredAt])

StopsLogged(log, roomName, userId) ==
    IF <<roomName, userId>> \in DOMAIN log
    THEN Len(log[<<roomName, userId>>].stops) ELSE 0

\* socket.on("typing:start")
TypingStart(c, userId, recipientId, userName) ==
    LET roomName == getRoomName(userId, recipientId)
        tu == EnsureRoom(typingUsers, roomName)
        roomTypers == RoomTypers(tu, roomName)
        timeout == NewTimeout(c, roomName, userId, recipientId)
    IN
    /\ alive[c] = "open"
    /\ nextTimer < MaxTimers
    /\ timers' = CancelExisting(timers, roomTypers, userId) \cup {timeout}
    /\ nextTimer' = nextTimer + 1
    /\ typingUsers' =
          SetRoomTypers(tu, roomName, MapSet(roomTypers, userId, timeout))
    /\ inbox' = StartBroadcast(inbox, c, roomName,
                               TypingStartEvent(userId, recipientId, userName))
    /\ InboxFits(inbox')
    /\ typingLog' = LogStart(typingLog, roomName, userId)
    /\ UNCHANGED <<keyVars, svcVars, hookVars,
                   now, sockVars, msgVars, clientVars, httpResponse>>

\* the expiry callback leaving the user's entry in the room's Map
ExpiredTypersKept(roomTypers, userId) == roomTypers

\* roomTypers.delete(data.userId) of the expiry callback
ExpiredTypers(roomTypers, userId) == MapDelete(roomTypers, userId)

\* the callback of the timeout set by typing:start
TimerFire(t) ==
    /\ t \in timers
    /\ t.due <= now
    /\ timers' = timers \ {t}
    /\ typingUsers' =
          SetRoomTypers(typingUsers, t.room,
                        ExpiredTypers(RoomTypers(typingUsers, t.room), t.userId))
    /\ inbox' = SocketTo(inbox, t.socket, t.room,
                         TypingStopEvent(t.userId, t.recipientId))
    /\ InboxFits(inbox')
    /\ typingLog' = LogStop(typingLog, t.room, t.userId, "expiry")
    /\ UNCHANGED <<keyVars, svcVars, hookVars,
                   now, sockVars, msgVars, nextTimer, clientVars,
                   httpResponse>>

\* the stop handler leaving the timeout scheduled
StopKeepsTimeout(ts, roomTypers, userId) == ts

\* const timeout = roomTypers.get(data.userId);
\* if (timeout) clearTimeout(timeout)
StopClearsTimeout(ts, roomTypers, userId) ==
    IF userId \in DOMAIN roomTypers
    THEN ClearTimeout(ts, roomTypers[userId])
    ELSE ts

\* socket.on("typing:stop")
TypingStop(c, userId, recipientId) ==
    LET roomName == getRoomName(userId, recipientId)
        roomTypers == RoomTypers(typingUsers, roomName)
    IN
    /\ alive[c] = "open"
    /\ StopsLogged(typingLog, roomName, userId) < MaxStops
    /\ timers' = StopClearsTimeout(timers, roomTypers, userId)
    /\ typingUsers' =
          IF userId \in DOMAIN roomTypers
          THEN SetRoomTypers(typingUsers, roomName,
                             MapDelete(roomTypers, userId))
          ELSE typingUsers
    /\ inbox' = SocketTo(inbox, c, roomName,
                         TypingStopEvent(userId, recipientId))
    /\ InboxFits(inbox')
    /\ typingLog' = LogStop(typingLog, roomName, userId, "manual")
    /\ UNCHANGED <<keyVars, svcVars, hookVars,
                   now, sockVars, msgVars, nextTimer, clientVars,
                   httpResponse>>

\* this.typingUsers.forEach(...) of the disconnect handler, from entry i on;
\* st holds the typingUsers, timers, inbox and typingLog reached so far
RECURSIVE DisconnectCleanup(_, _, _, _)
DisconnectCleanup(i, c, userId, st) ==
    IF i > Len(st.tu) THEN st
    ELSE LET roomName == st.tu[i].room
             roomTypers == st.tu[i].typers
         IN
         IF userId \in DOMAIN roomTypers
         THEN DisconnectCleanup(i + 1, c, userId,
                [tu |-> [st.tu EXCEPT ![i].typers = MapDelete(roomTypers, userId)],
                 ts |-> ClearTimeout(st.ts, roomTypers[userId]),
                 inb |-> SocketTo(st.inb, c, roomName,
                                  TypingStopEvent(userId, 0)),
                 log |-> LogStop(st.log, roomName, userId, "disconnect")])
         ELSE DisconnectCleanup(i + 1, c, userId, st)

\* socket.on("disconnect"); socket.io takes the socket out of its rooms,
\* what the client had emitted and the server not yet read is lost, and the
\* socket object (with its userId) is dropped
Disconnect(c) ==
    LET st0 == [tu |-> typingUsers, ts |-> timers, inb |-> inbox,
                log |-> typingLog]
        st == IF userIdOf[c] # <<>> /\ Truthy(userIdOf[c][1])
              THEN DisconnectCleanup(1, c, userIdOf[c][1], st0)
              ELSE st0
    IN
    /\ alive[c] = "open"
    /\ alive' = [alive EXCEPT ![c] = "closed"]
    /\ rooms' = [rooms EXCEPT ![c] = {}]
    /\ typingUsers' = st.tu
    /\ timers' = st.ts
    /\ inbox' = st.inb
    /\ InboxFits(inbox')
    /\ typingLog' = st.log
    /\ uplink' = [uplink EXCEPT ![c] = <<>>]
    /\ userIdOf' = [userIdOf EXCEPT ![c] = <<>>]
    /\ UNCHANGED <<keyVars, svcVars, hookVars,
                   now, msgVars, nextTimer, store, received,
                   httpResponse>>

\* the clock advances, never past the time a scheduled timeout is due
Tick ==
    LET next == now + TickMs
        dues == {t.due : t \in timers}
    IN
    /\ now < StartTime + MaxTicks * TickMs
    /\ \A t \in timers : t.due > now
    /\ now' = IF \E d \in dues : d < next
              THEN CHOOSE d \in dues : \A e \in dues : d <= e
              ELSE next
    /\ UNCHANGED <<keyVars, svcVars, hookVars,
                   sockVars, msgVars, typingVars, inbox, clientVars,
                   httpResponse>>

(* ----------------------------- SpecTyping ----------------------------- *)

InitServer ==
    /\ keyFn = "none"
    /\ keyArgs = <<0, 0>>
    /\ keyResult = <<>>
    /\ grouping = NoGrouping
    /\ formatting = NoFormatting
    /\ ServerInit

NextTyping ==
    \/ \E c \in Conns : UserIdentify(c, OwnUser[c])
    \/ \E c \in Conns, p \in TypingPairs, n \in UserNames :
          TypingStart(c, p[1], p[2], n)
    \/ \E c \in Conns, p \in TypingPairs : TypingStop(c, p[1], p[2])
    \/ \E t \in timers : TimerFire(t)
    \/ \E c \in Conns : Disconnect(c)
    \/ Tick

SpecTyping == InitServer /\ [][NextTyping]_vars

TimersOf(roomName, userId) ==
    {t \in timers : t.room = roomName /\ t.userId = userId}

HasTypingState(roomName, userId) ==
    userId \in DOMAIN RoomTypers(typingUsers, roomName)

LogKeys == DOMAIN typingLog

ExpiriesIn(stops) == {i \in 1..Len(stops) : stops[i] = "expiry"}

\* the run's latest start was followed by no stop or disconnect cleanup
Undisturbed(e) == e.stops = <<>> \/ e.stops[1] = "expiry"

\* C6: in every reachable server state there is at most one scheduled (not
\* cancelled, not fired) expiry timeout per (room, userId).
C6_OneTimerPerPair ==
    \A t1 \in timers, t2 \in timers :
        (t1.room = t2.room /\ t1.userId = t2.userId) => t1 = t2

\* a pair was started twice, the second time later and by another socket,
\* and one timeout is scheduled for it
C6_Witness ==
    \E k \in LogKeys :
        /\ typingLog[k].starts = 2
        /\ typingLog[k].runStartAt < typingLog[k].startAt
        /\ Cardinality(TimersOf(k[1], k[2])) = 1
        /\ \E t \in TimersOf(k[1], k[2]) : t.socket = "c2"

\* C7: after a single typing:start for (room, userId) with no later start,
\* stop or disconnect cleanup for the pair: until D_server has elapsed no
\* typing:stop has been broadcast and the timeout is scheduled; once it has
\* elapsed exactly one typing:stop (the expiry) was broadcast, at the start
\* time plus D_server, and the pair has no typing state.
C7_SingleStartExpiry ==
    \A k \in LogKeys :
        LET e == typingLog[k] IN
        (e.starts = 1 /\ Undisturbed(e)) =>
            /\ now < e.startAt + D_server => e.stops = <<>>
            /\ e.stops = <<>> =>
                  /\ now <= e.startAt + D_server
                  /\ HasTypingState(k[1], k[2])
                  /\ \E t \in timers : TimersOf(k[1], k[2]) = {t}
            /\ e.stops # <<>> =>
                  /\ e.expiredAt = e.startAt + D_server
                  /\ Cardinality(ExpiriesIn(e.stops)) = 1
                  /\ TimersOf(k[1], k[2]) = {}
                  /\ ~HasTypingState(k[1], k[2])

\* a single start expired
C7_Witness ==
    \E k \in LogKeys :
        /\ typingLog[k].starts = 1
        /\ typingLog[k].stops = <<"expiry">>
        /\ typingLog[k].expiredAt = typingLog[k].startAt + D_server
        /\ now = typingLog[k].expiredAt

\* C8: a typing:start for a pair that is already typing resets the
\* countdown: the scheduled timeout is due D_server after the most recent
\* start, the expiry typing:stop is broadcast then and not D_server after an
\* earlier start of the run, and the run yields one expiry stop only.
C8_RestartResetsCountdown ==
    \A k \in LogKeys :
        LET e == typingLog[k] IN
        (e.starts >= 2 /\ Undisturbed(e)) =>
            /\ \A t \in TimersOf(k[1], k[2]) : t.due = e.startAt + D_server
            /\ e.stops = <<>> => TimersOf(k[1], k[2]) # {}
            /\ e.stops # <<>> =>
                  /\ e.expiredAt = e.startAt + D_server
                  /\ e.runStartAt < e.startAt
                        => e.expiredAt > e.runStartAt + D_server
                  /\ Cardinality(ExpiriesIn(e.stops)) = 1
                  /\ TimersOf(k[1], k[2]) = {}

\* a pair restarted half-way through its countdown expired D_server after
\* the second start
C8_Witness ==
    \E k \in LogKeys :
        /\ typingLog[k].starts = 2
        /\ typingLog[k].startAt = typingLog[k].runStartAt + TickMs
        /\ typingLog[k].stops = <<"expiry">>
        /\ typingLog[k].expiredAt = typingLog[k].startAt + D_server

\* C9: after a typing:start followed by a typing:stop event for the pair,
\* the timeout is cancelled and the state removed: the manual typing:stop
\* is the only kind broadcast until the next start, and no expiry follows.
C9_StopCancelsTimer ==
    \A k \in LogKeys :
        LET e == typingLog[k] IN
        (e.stops # <<>> /\ e.stops[1] = "manual") =>
            /\ \A i \in 1..Len(e.stops) : e.stops[i] = "manual"
            /\ TimersOf(k[1], k[2]) = {}
            /\ ~HasTypingState(k[1], k[2])

\* a started pair was stopped by an event and more than D_server passed
C9_Witness ==
    \E k \in LogKeys :
        /\ typingLog[k].starts = 1
        /\ typingLog[k].stops = <<"manual">>
        /\ nextTimer = 1
        /\ now > StartTime + D_server

(* ----------------------------- SpecFanout ----------------------------- *)
(* room membership and the typing:start broadcasts, without the clock     *)

NextFanout ==
    \/ \E c \in Conns : UserIdentify(c, OwnUser[c])
    \/ \E c \in Conns, p \in JoinPairs : ConversationJoin(c, p[1], p[2])
    \/ \E c \in Conns, p \in JoinPairs : ConversationLeave(c, p[1], p[2])
    \/ \E c \in Conns, p \in TypingPairs, n \in UserNames :
          TypingStart(c, p[1], p[2], n)
    \/ \E c \in Conns : Disconnect(c)

SpecFanout == InitServer /\ [][NextFanout]_vars

\* C10: the typing:start broadcast made for a typing:start event of
\* connection c is appended to the deliveries of every other connection
\* joined to the room at that moment, and reaches neither c itself nor a
\* connection that has not joined the room.
C10_StartToOthersOnly ==
    [][\A c \in Conns, p \in TypingPairs, n \in UserNames :
          TypingStart(c, p[1], p[2], n) =>
              \A d \in Conns :
                  inbox'[d] =
                      IF d # c /\ getRoomName(p[1], p[2]) \in rooms[d]
                      THEN Append(inbox[d], TypingStartEvent(p[1], p[2], n))
                      ELSE inbox[d]]_vars

\* both connections are in the room of users 1 and 2 and the one start so
\* far, made by c1, is held for c2 only
C10_Witness ==
    /\ getRoomName(1, 2) \in rooms["c1"] \cap rooms["c2"]
    /\ nextTimer = 1
    /\ \E t \in timers : t.socket = "c1" /\ t.room = getRoomName(1, 2)
    /\ inbox["c1"] = <<>>
    /\ \E n \in UserNames : inbox["c2"] = <<TypingStartEvent(1, 2, n)>>

(* --------------------------- MessageService --------------------------- *)

Space == " "

RECURSIVE TrimStart(_)
TrimStart(s) ==
    IF s # <<>> /\ Head(s) = Space THEN TrimStart(Tail(s)) ELSE s

RECURSIVE TrimEnd(_)
TrimEnd(s) ==
    IF s # <<>> /\ s[Len(s)] = Space
    THEN TrimEnd(SubSeq(s, 1, Len(s) - 1)) ELSE s

\* content.trim()
Trim(s) == TrimEnd(TrimStart(s))

\* generateMessageId(): "msg_<Date.now()>_<random part>", the n-th call
\* drawing a random part no earlier call drew
generateMessageId(n) == <<"msg", now, n>>

MatchedText == <<"Y", "o", "u", " ", "m", "a", "t", "c", "h", "e", "d">>
MockText1 == <<"H", "e", "y", "!">>
MockText2 == <<"Y", "e", "s">>
MockText3 == <<"I", " ", "a", "m", "!">>

\* createMockConversation(user1, user2): three messages without id
createMockConversation(user1, user2) ==
    << [senderId |-> user2, recipientId |-> user1, content |-> MockText1,
        timestamp |-> now - 6 * 60 * 60 * 1000],
       [senderId |-> user1, recipientId |-> user2, content |-> MockText2,
        timestamp |-> now - 5 * 60 * 60 * 1000],
       [senderId |-> user2, recipientId |-> user1, content |-> MockText3,
        timestamp |-> now - 10 * 1000] >>

\* { ...msg, id: generateMessageId() }
WithId(msg, id) ==
    [id |-> id, senderId |-> msg.senderId, recipientId |-> msg.recipientId,
     content |-> msg.content, timestamp |-> msg.timestamp]

\* a first read that stores nothing for the conversation
NoSeed(userId1, userId2, n) == <<>>

\* the system message followed by the mock conversation, with the ids of
\* the calls n+1 .. n+4 of generateMessageId
SeedConversation(userId1, userId2, n) ==
    LET mockMessages == createMockConversation(userId1, userId2) IN
    << [id |-> generateMessageId(n + 1), senderId |-> SYSTEM,
        recipientId |-> 0, content |-> MatchedText,
        timestamp |-> MatchDate] >>
    \o [i \in 1..Len(mockMessages) |->
           WithId(mockMessages[i], generateMessageId(n + 1 + i))]

\* MessageService.getConversation: the conversations Map afterwards, the
\* messages returned and the number of ids generated
getConversation(convs, userId1, userId2, n) ==
    LET key == serviceConversationKey(userId1, userId2)
        messages == Lookup(convs, key, <<>>)
    IN
    IF messages = <<>>
    THEN LET seeded == SeedConversation(userId1, userId2, n) IN
         [conversations |-> MapSet(convs, key, seeded),
          messages |-> seeded,
          nextMsgId |-> n + Len(seeded)]
    ELSE [conversations |-> convs, messages |-> messages, nextMsgId |-> n]

\* MessageService.addMessage: the conversations Map afterwards and the
\* message created
addMessage(convs, messageDto, n) ==
    LET key == serviceConversationKey(messageDto.senderId,
                                      messageDto.recipientId)
        newMessage == WithId([senderId |-> messageDto.senderId,
                              recipientId |-> messageDto.recipientId,
                              content |-> messageDto.content,
                              timestamp |-> now],
                             generateMessageId(n + 1))
        messages == Lookup(convs, key, <<>>)
    IN [conversations |-> MapSet(convs, key, Append(messages, newMessage)),
        newMessage |-> newMessage]

(* ---------------------- SocketHandler: message:send ------------------- *)

MessageSendEvent(senderId, recipientId, content) ==
    [ev |-> "message:send", senderId |-> senderId,
     recipientId |-> recipientId, content |-> content]

MessageNewEvent(message) == [ev |-> "message:new", message |-> message]

\* a message:new sent to the room without its sender
MessageBroadcastToOthers(inb, c, roomName, message) ==
    SocketTo(inb, c, roomName, MessageNewEvent(message))

\* this.io.to(roomName).emit("message:new", newMessage)
MessageBroadcast(inb, c, roomName, message) ==
    IoTo(inb, roomName, MessageNewEvent(message))

\* message:send events emitted so far: handled, or waiting in an uplink
Emitted == Len(sent) + Len(uplink["c1"]) + Len(uplink["c2"])

\* the body of socket.on("message:send") for the event data
OnMessageSend(c, data) ==
    LET added == addMessage(conversations,
                            [senderId |-> data.senderId,
                             recipientId |-> data.recipientId,
                             content |-> data.content],
                            nextMsgId)
        roomName == getRoomName(data.senderId, data.recipientId)
    IN
    /\ alive[c] = "open"
    /\ conversations' = added.conversations
    /\ nextMsgId' = nextMsgId + 1
    /\ sent' = Append(sent, added.newMessage)
    /\ inbox' = MessageBroadcast(inbox, c, roomName, added.newMessage)
    /\ InboxFits(inbox')
    /\ UNCHANGED <<keyVars, svcVars, hookVars,
                   now, sockVars, typingVars, store, received,
                   httpResponse>>

\* socket.on("message:send") for an event a client emitted on its socket
\* without going through the application's send path
MessageSend(c, senderId, recipientId, content) ==
    /\ Emitted < MaxSends
    /\ OnMessageSend(c, MessageSendEvent(senderId, recipientId, content))
    /\ UNCHANGED uplink

\* socket.on("message:send") for the oldest event of the connection's uplink
MessageSendFromUplink(c) ==
    /\ uplink[c] # <<>>
    /\ OnMessageSend(c, Head(uplink[c]))
    /\ uplink' = [uplink EXCEPT ![c] = Tail(@)]

(* -------------------------- GET /api/messages ------------------------- *)

IsDigit(ch) == \E d \in 1..10 : DigitChar[d] = ch

DigitValue(ch) == (CHOOSE d \in 1..10 : DigitChar[d] = ch) - 1

RECURSIVE ParseDigits(_, _)
ParseDigits(s, acc) ==
    IF s # <<>> /\ IsDigit(Head(s))
    THEN ParseDigits(Tail(s), acc * 10 + DigitValue(Head(s)))
    ELSE acc

\* parseInt(s): leading white space, an optional sign and the leading
\* digits; <<>> stands for NaN
ParseInt(s) ==
    LET t == TrimStart(s)
        signed == t # <<>> /\ Head(t) \in {"-", "+"}
        digits == IF signed THEN Tail(t) ELSE t
    IN IF digits = <<>> \/ ~IsDigit(Head(digits)) THEN <<>>
       ELSE IF signed /\ Head(t) = "-"
       THEN <<0 - ParseDigits(digits, 0)>>
       ELSE <<ParseDigits(digits, 0)>>

\* values of the query parameters (userId, recipientId): the conversation
\* of users 1 and 2 asked for from either side, and a malformed request
Queries == {<<<<"1">>, <<"2">>>>, <<<<"2">>, <<"1">>>>, <<<<"1">>, <<"x">>>>}

\* router.get("/messages")
GetMessages(userIdParam, recipientIdParam) ==
    LET userId == ParseInt(userIdParam)
        recipientId == ParseInt(recipientIdParam)
    IN
    /\ IF userId = <<>> \/ recipientId = <<>>
       THEN /\ httpResponse' = [status |-> 400,
                                error |-> "Invalid userId or recipientId",
                                messages |-> <<>>]
            /\ UNCHANGED <<conversations, nextMsgId>>
       ELSE LET got == getConversation(conversations, userId[1],
                                       recipientId[1], nextMsgId)
            IN /\ conversations' = got.conversations
               /\ nextMsgId' = got.nextMsgId
               /\ httpResponse' = [status |-> 200, error |-> "",
                                   messages |-> got.messages]
    /\ UNCHANGED <<keyVars, svcVars, hookVars,
                   now, sockVars, sent, typingVars, inbox,
                   clientVars>>

(* ------------------------------- client ------------------------------- *)

\* SocketService.emit: dropped unless the socket is connected
Emit(up, c, event) ==
    IF alive[c] = "open" THEN [up EXCEPT ![c] = Append(@, event)] ELSE up

\* SocketService.sendMessage
sendMessage(up, c, senderId, recipientId, content) ==
    Emit(up, c, MessageSendEvent(senderId, recipientId, content))

\* currentRecipient of the client of c: none yet, or the other user
Recipients(c) == {<<>>} \cup {<<u>> : u \in Users \ {OwnUser[c]}}

\* what the user submits in the message input
UiContents == {<<>>, <<" ">>, <<" ", "a", " ">>}

\* content of a message:send event emitted outside the application
RawContents == {<<>>, <<"a">>}

\* (senderId, recipientId) of such an event
MsgPairs == {<<1, 2>>, <<2, 1>>, <<1, 1>>}

\* useChatActions.handleSendMessage, up to the send
HandleSendMessage(c, currentRecipient, content) ==
    /\ Emitted < MaxSends
    /\ uplink' =
          IF currentRecipient = <<>> \/ Trim(content) = <<>>
          THEN uplink
          ELSE sendMessage(uplink, c, OwnUser[c], currentRecipient[1],
                           Trim(content))
    /\ UNCHANGED <<keyVars, svcVars, hookVars,
                   now, sockVars, msgVars, typingVars, inbox,
                   store, received, httpResponse>>

\* a store that puts the new message first
StorePrepend(convs, message) ==
    LET key == storeConversationKey(message.senderId, message.recipientId)
        messages == Lookup(convs, key, <<>>)
    IN MapSet(convs, key, <<message>> \o messages)

\* useMessagesStore addMessage
StoreAddMessage(convs, message) ==
    LET key == storeConversationKey(message.senderId, message.recipientId)
        messages == Lookup(convs, key, <<>>)
    IN MapSet(convs, key, messages \o <<message>>)

\* the onNewMessage callback of useSocket, for the oldest delivered event
OnNewMessage(c) ==
    /\ inbox[c] # <<>>
    /\ Head(inbox[c]).ev = "message:new"
    /\ LET message == Head(inbox[c]).message
           newMessage == [id |-> message.id,
                          senderId |-> message.senderId,
                          recipientId |-> message.recipientId,
                          content |-> message.content,
                          timestamp |-> message.timestamp]
       IN /\ store' = [store EXCEPT ![c] = StoreAddMessage(@, newMessage)]
          /\ received' = [received EXCEPT ![c] = Append(@, newMessage)]
    /\ inbox' = [inbox EXCEPT ![c] = Tail(@)]
    /\ UNCHANGED <<keyVars, svcVars, hookVars,
                   now, sockVars, msgVars, typingVars, uplink,
                   httpResponse>>

(* ------------------------------ SpecMsg ------------------------------- *)

NextMsg ==
    \/ \E c \in Conns, p \in JoinPairs : ConversationJoin(c, p[1], p[2])
    \/ \E c \in Conns, p \in JoinPairs : ConversationLeave(c, p[1], p[2])
    \/ \E c \in Conns, p \in MsgPairs, content \in RawContents :
          MessageSend(c, p[1], p[2], content)
    \/ \E c \in Conns, content \in UiContents :
          \E r \in Recipients(c) : HandleSendMessage(c, r, content)
    \/ \E c \in Conns : MessageSendFromUplink(c)
    \/ \E c \in Conns : OnNewMessage(c)
    \/ \E c \in Conns : Disconnect(c)

SpecMsg == InitServer /\ [][NextMsg]_vars

(* ----------------------------- SpecHistory ---------------------------- *)
(* message:send events and history requests                               *)

NextHistory ==
    \/ \E c \in Conns, p \in MsgPairs, content \in RawContents :
          MessageSend(c, p[1], p[2], content)
    \/ \E q \in Queries : GetMessages(q[1], q[2])

SpecHistory == InitServer /\ [][NextHistory]_vars

(* ------------------------- properties: messages ----------------------- *)

Last(seq) == seq[Len(seq)]

\* the data of the message:send event a step of the handler is for
SendData ==
    {MessageSendEvent(p[1], p[2], content) :
        p \in MsgPairs \cup Pairs, content \in RawContents \cup {<<"a">>}}

\* the messages appended so far to the conversation of the key, in order
SentFor(key) ==
    SelectSeq(sent, LAMBDA m :
                  serviceConversationKey(m.senderId, m.recipientId) = key)

PosInSent(m) ==
    IF \E i \in 1..Len(sent) : sent[i] = m
    THEN CHOOSE i \in 1..Len(sent) : sent[i] = m
    ELSE 0

StoreKeys == {storeConversationKey(p[1], p[2]) : p \in MsgPairs}

InStoreKey(m, key) == storeConversationKey(m.senderId, m.recipientId) = key

\* the messages of the message:new events delivered to c and not yet handled
Pending(c) == [i \in 1..Len(inbox[c]) |-> inbox[c][i].message]

\* C3: for every connection and conversation, the messages its client has
\* handled followed by those delivered and not yet handled are messages of
\* the append history in strictly increasing append position, and the
\* client store holds for the conversation exactly the handled ones in the
\* order of receipt; so of two messages of a conversation the one appended
\* first is received first and stored first.
C3_AppendOrderObserved ==
    \A c \in Conns, key \in StoreKeys :
        LET handled == SelectSeq(received[c], LAMBDA m : InStoreKey(m, key))
            seen == handled \o
                    SelectSeq(Pending(c), LAMBDA m : InStoreKey(m, key))
        IN /\ Lookup(store[c], key, <<>>) = handled
           /\ \A i \in 1..Len(seen) : PosInSent(seen[i]) > 0
           /\ \A i \in 1..Len(seen), j \in 1..Len(seen) :
                 i < j => PosInSent(seen[i]) < PosInSent(seen[j])

\* c2 stayed in the room while user 1 and then user 2 sent in their
\* conversation, and its store holds both messages in that order
C3_Witness ==
    /\ Len(sent) = 2
    /\ sent[1].senderId = 1 /\ sent[2].senderId = 2
    /\ sent[1].recipientId = 2 /\ sent[2].recipientId = 1
    /\ getRoomName(1, 2) \in rooms["c2"]
    /\ Lookup(store["c2"], storeConversationKey(1, 2), <<>>) = sent

\* the parameters of a well-formed history request
ValidQueries == {q \in Queries : ParseInt(q[1]) # <<>> /\ ParseInt(q[2]) # <<>>}

QueryKey(q) == serviceConversationKey(ParseInt(q[1])[1], ParseInt(q[2])[1])

SenderIds(messages) == [i \in 1..Len(messages) |-> messages[i].senderId]

C5_BlankContentRejected ==
    /\ \A i \in 1..Len(sent) : Trim(sent[i].content) # <<>>
    /\ \A k \in DOMAIN conversations :
          \A i \in 1..Len(conversations[k]) :
              Trim(conversations[k][i].content) # <<>>
    /\ \A c \in Conns : \A i \in 1..Len(inbox[c]) :
          inbox[c][i].ev = "message:new"
              => Trim(inbox[c][i].message.content) # <<>>

(* --------------------------- SpecDisconnect --------------------------- *)
(* identification, typing starts, expiry and disconnection, for the user  *)
(* ids 0 and 1                                                            *)

\* the ids a connection identifies as
IdentifyIds == {0, 1}

\* (userId, recipientId) of the typing:start events: users 0 and 1 typing
\* in their common room, and user 1 typing in a second room
DisconnectPairs == {<<0, 1>>, <<1, 0>>, <<1, 1>>}

NextDisconnect ==
    \/ \E c \in Conns, u \in IdentifyIds : UserIdentify(c, u)
    \/ \E c \in Conns, p \in DisconnectPairs, n \in UserNames :
          TypingStart(c, p[1], p[2], n)
    \/ \E t \in timers : TimerFire(t)
    \/ \E c \in Conns : Disconnect(c)
    \/ Tick

SpecDisconnect == InitServer /\ [][NextDisconnect]_vars

\* the rooms in which the user has typing state
TypingRoomsOf(tu, userId) ==
    {tu[i].room : i \in {j \in 1..Len(tu) : userId \in DOMAIN tu[j].typers}}

\* C11 as stated: when a connection identified as userId disconnects, then
\* in every room where userId had typing state a typing:stop for userId is
\* broadcast, and afterwards no room holds typing state for userId and no
\* timeout of userId stays scheduled to fire an expiry typing:stop later.
C11_DisconnectCleansUp ==
    [][\A c \in Conns :
          (alive'[c] = "closed" /\ Disconnect(c) /\ userIdOf[c] # <<>>) =>
              LET userId == userIdOf[c][1] IN
              /\ TypingRoomsOf(typingUsers', userId) = {}
              /\ \A t \in timers' : t.userId # userId
              /\ \A roomName \in TypingRoomsOf(typingUsers, userId) :
                    LET stops == typingLog'[<<roomName, userId>>].stops
                    IN stops # <<>> /\ stops[Len(stops)] = "disconnect"]_vars

(* --------------------------- SocketService ---------------------------- *)
(* The client state is the record cs of the service fields (svc), the     *)
(* sockets io() created (transports) and the events emitted by the step   *)
(* under way (emits); each method maps cs to the cs after it.             *)

ClientState == [svc |-> svc, transports |-> transports, emits |-> <<>>]

\* this.socket?.connected
SocketConnected(cs) ==
    cs.svc.socket # 0 /\ cs.transports[cs.svc.socket].state = "connected"

ClientEvent(ev, socket, args, name) ==
    [ev |-> ev, socket |-> socket, args |-> args, name |-> name]

\* SocketService.emit
SvcEmit(cs, ev, args, name) ==
    IF ~SocketConnected(cs) THEN cs
    ELSE [cs EXCEPT !.emits = Append(@, ClientEvent(ev, cs.svc.socket,
                                                    args, name))]

\* SocketService.identify
identify(cs, userId) ==
    SvcEmit([cs EXCEPT !.svc.currentUserId = <<userId>>],
            "user:identify", <<userId>>, "")

\* index of the first separator in s, 0 when there is none
RECURSIVE IndexOf(_, _, _)
IndexOf(s, sep, i) ==
    IF i > Len(s) THEN 0
    ELSE IF s[i] = sep THEN i ELSE IndexOf(s, sep, i + 1)

\* key.split('_')
RECURSIVE Split(_, _)
Split(s, sep) ==
    LET i == IndexOf(s, sep, 1) IN
    IF i = 0 THEN <<s>>
    ELSE <<SubSeq(s, 1, i - 1)>> \o Split(SubSeq(s, i + 1, Len(s)), sep)

\* SocketService.parseConversationKey; <<>> stands for null and for NaN
parseConversationKey(key) ==
    LET parts == Split(key, "_") IN
    IF Len(parts) = 2 THEN <<ParseInt(parts[1]), ParseInt(parts[2])>>
    ELSE << <<>>, <<>> >>

\* a number, null or NaN used as a condition
TruthyOpt(v) == v # <<>> /\ Truthy(v[1])

\* if (userId && recipientId)
ReplayGuard(userId, recipientId) ==
    TruthyOpt(userId) /\ TruthyOpt(recipientId)

\* this.joinedConversations.forEach(conv => ...) of the connect handler,
\* from the i-th conversation on
RECURSIVE Rejoin(_, _)
Rejoin(cs, i) ==
    IF i > Len(cs.svc.joinedConversations) THEN cs
    ELSE LET ids == parseConversationKey(cs.svc.joinedConversations[i]) IN
         Rejoin(IF ReplayGuard(ids[1], ids[2])
                THEN SvcEmit(cs, "conversation:join",
                             <<ids[1][1], ids[2][1]>>, "")
                ELSE cs,
                i + 1)

\* the handler connect() registers first for "connect"
OnConnect(cs) ==
    LET cs1 == [cs EXCEPT !.svc.isConnecting = FALSE]
        cs2 == IF TruthyOpt(cs1.svc.currentUserId)
               THEN identify(cs1, cs1.svc.currentUserId[1])
               ELSE cs1
    IN Rejoin(cs2, 1)

\* if (userId) { ...; this.socket.on("connect", ...) }: the user id the
\* second "connect" handler of the new socket is closed over, if any
IdentifyHandler(userId) == IF TruthyOpt(userId) THEN userId ELSE <<>>

\* the handler connect() registers for "connect" when given a userId
OnConnectIdentify(cs, h) ==
    LET userId == cs.transports[h].identifyAs IN
    IF userId # <<>> /\ userId = cs.svc.currentUserId
    THEN identify(cs, userId[1])
    ELSE cs

\* a guard that lets connect() through while a connection is in progress
NeverConnecting(cs) == FALSE

\* if (this.isConnecting)
ConnectInProgress(cs) == cs.svc.isConnecting

\* SocketService.connect: the client state afterwards and the handle returned
connect(cs, userId) ==
    IF ConnectInProgress(cs)
    THEN [cs |-> cs, returned |-> cs.svc.socket]
    ELSE IF SocketConnected(cs)
    THEN [cs |-> IF TruthyOpt(userId) /\ userId # cs.svc.currentUserId
                 THEN identify(cs, userId[1]) ELSE cs,
          returned |-> cs.svc.socket]
    ELSE LET h == Len(cs.transports) + 1
             created == [state |-> "connecting",
                         identifyAs |-> IdentifyHandler(userId)]
         IN [cs |-> [cs EXCEPT
                       !.svc.isConnecting = TRUE,
                       !.svc.socket = h,
                       !.svc.currentUserId =
                           IF TruthyOpt(userId) THEN userId ELSE @,
                       !.transports = Append(@, created)],
             returned |-> h]

\* if (this.socket)
HasSocket(cs) == cs.svc.socket # 0

\* SocketService.disconnect
disconnect(cs) ==
    IF HasSocket(cs)
    THEN [cs EXCEPT
            !.transports[cs.svc.socket].state = "closed",
            !.svc.socket = 0,
            !.svc.currentUserId = <<>>,
            !.svc.joinedConversations = <<>>]
    ELSE cs

InSeq(seq, x) == \E i \in 1..Len(seq) : seq[i] = x

\* SocketService.joinConversation
joinConversation(cs, userId, recipientId) ==
    LET key == socketConversationKey(userId, recipientId) IN
    IF InSeq(cs.svc.joinedConversations, key) THEN cs
    ELSE SvcEmit([cs EXCEPT !.svc.joinedConversations = Append(@, key)],
                 "conversation:join", <<userId, recipientId>>, "")

\* SocketService.leaveConversation
leaveConversation(cs, userId, recipientId) ==
    LET key == socketConversationKey(userId, recipientId)
        cs1 == SvcEmit(cs, "conversation:leave", <<userId, recipientId>>, "")
    IN IF InSeq(cs.svc.joinedConversations, key)
       THEN [cs1 EXCEPT !.svc.joinedConversations =
                            SelectSeq(@, LAMBDA k : k # key)]
       ELSE cs

(* ------------------------------ SpecClient ---------------------------- *)
(* the SocketService singleton under calls of its methods and the events  *)
(* of the sockets it created                                              *)

\* the userId argument of connect(): absent, or a user id
ConnectIds == {<<>>, <<0>>, <<1>>}

\* the argument of identify()
IdentifyIds2 == {0, 2}

\* (userId, recipientId) of joinConversation and leaveConversation
ClientPairs == {<<1, 2>>, <<3, 1>>, <<0, 1>>}

Handles == 1..Len(transports)

Commit(cs, method) ==
    /\ svc' = cs.svc
    /\ transports' = cs.transports
    /\ emits' = cs.emits
    /\ called' = method

ServerUnchanged ==
    UNCHANGED <<keyVars, now, sockVars, msgVars, typingVars, inbox,
                clientVars, httpResponse, loader, grouping, formatting,
                thrown>>

\* socketService.connect(url, userId)
SvcConnect(userId) ==
    LET r == connect(ClientState, userId) IN
    /\ Len(r.cs.transports) <= MaxSockets
    /\ Commit(r.cs, "connect")
    /\ returned' = r.returned
    /\ UNCHANGED hookVars
    /\ ServerUnchanged

\* socketService.disconnect()
SvcDisconnect ==
    /\ Commit(disconnect(ClientState), "disconnect")
    /\ UNCHANGED <<returned, hookVars>>
    /\ ServerUnchanged

\* socketService.identify(userId)
SvcIdentify(userId) ==
    /\ Commit(identify(ClientState, userId), "identify")
    /\ UNCHANGED <<returned, hookVars>>
    /\ ServerUnchanged

\* socketService.joinConversation(userId, recipientId)
SvcJoin(userId, recipientId) ==
    /\ Commit(joinConversation(ClientState, userId, recipientId),
              "joinConversation")
    /\ UNCHANGED <<returned, hookVars>>
    /\ ServerUnchanged

\* socketService.leaveConversation(userId, recipientId)
SvcLeave(userId, recipientId) ==
    /\ Commit(leaveConversation(ClientState, userId, recipientId),
              "leaveConversation")
    /\ UNCHANGED <<returned, hookVars>>
    /\ ServerUnchanged

\* the "connect" event of socket h: its first connection, or a
\* reconnection socket.io makes by itself; both "connect" handlers run
TransportConnect(h) ==
    /\ transports[h].state \in {"connecting", "disconnected"}
    /\ LET cs0 == [ClientState EXCEPT !.transports[h].state = "connected"]
       IN Commit(OnConnectIdentify(OnConnect(cs0), h), "on connect")
    /\ UNCHANGED <<returned, hookVars>>
    /\ ServerUnchanged

\* the "disconnect" event of socket h, the transport having dropped
TransportDisconnect(h) ==
    /\ transports[h].state = "connected"
    /\ Commit([ClientState EXCEPT !.transports[h].state = "disconnected",
                                  !.svc.isConnecting = FALSE],
              "on disconnect")
    /\ UNCHANGED <<returned, hookVars>>
    /\ ServerUnchanged

\* the "connect_error" event of socket h; socket.io keeps trying
TransportConnectError(h) ==
    /\ transports[h].state \in {"connecting", "disconnected"}
    /\ Commit([ClientState EXCEPT !.svc.isConnecting = FALSE],
              "on connect_error")
    /\ UNCHANGED <<returned, hookVars>>
    /\ ServerUnchanged

NextClient ==
    \/ \E u \in ConnectIds : SvcConnect(u)
    \/ SvcDisconnect
    \/ \E u \in IdentifyIds2 : SvcIdentify(u)
    \/ \E p \in ClientPairs : SvcJoin(p[1], p[2])
    \/ \E p \in ClientPairs : SvcLeave(p[1], p[2])
    \/ \E h \in Handles : TransportConnect(h)
    \/ \E h \in Handles : TransportDisconnect(h)
    \/ \E h \in Handles : TransportConnectError(h)

SpecClient == InitServer /\ [][NextClient]_vars

(* ------------------------ SocketService properties -------------------- *)

\* the sockets io() created that disconnect() has not closed
OpenTransports == {h \in Handles : transports[h].state # "closed"}

\* the events named ev among the emissions seq
EventsOf(seq, ev) == SelectSeq(seq, LAMBDA e : e.ev = ev)

\* the conversation key of an emitted conversation:join
JoinKey(e) == socketConversationKey(e.args[1], e.args[2])

\* the emissions seq hold exactly one conversation:join for the room key
JoinedOnce(seq, key) ==
    Cardinality({i \in 1..Len(seq) :
                    seq[i].ev = "conversation:join" /\ JoinKey(seq[i]) = key})
        = 1

\* C12 as stated: after any sequence of connect(), disconnect() and socket
\* events, at most one socket that was created has not been closed.
C12_AtMostOneTransport == Cardinality(OpenTransports) <= 1

C14_ConnectReplaysAll ==
    [][(/\ called' = "on connect"
        /\ svc.socket # 0
        /\ TransportConnect(svc.socket)) =>
           /\ svc.currentUserId # <<>> =>
                 /\ emits' # <<>>
                 /\ emits'[1] = ClientEvent("user:identify", svc.socket,
                                            svc.currentUserId, "")
           /\ \A i \in 1..Len(svc.joinedConversations) :
                 JoinedOnce(emits', svc.joinedConversations[i])
           /\ Len(EventsOf(emits', "conversation:join"))
                 = Len(svc.joinedConversations)]_vars

\* C15 as stated: the "disconnect" event of a socket leaves the joined
\* conversations and the user id as they are, and disconnect() leaves the
\* joined conversations empty and the user id cleared.
C15_DisconnectKeepsOrClears ==
    [][/\ \A h \in Handles :
             (called' = "on disconnect" /\ TransportDisconnect(h)) =>
                 /\ svc'.joinedConversations = svc.joinedConversations
                 /\ svc'.currentUserId = svc.currentUserId
       /\ (called' = "disconnect" /\ SvcDisconnect) =>
             /\ svc'.joinedConversations = <<>>
             /\ svc'.currentUserId = <<>>]_vars

\* C16 as stated: joinConversation of a joined room changes and emits
\* nothing; of a new room it adds the room and emits conversation:join at
\* once if connected, nothing if not; and when the socket of the service
\* connects, a conversation:join is emitted for every room then joined.
C16_JoinIdempotentAndFlushed ==
    [][/\ \A p \in ClientPairs :
             (called' = "joinConversation" /\ SvcJoin(p[1], p[2])) =>
                 LET key == socketConversationKey(p[1], p[2])
                     was == InSeq(svc.joinedConversations, key)
                     join == ClientEvent("conversation:join", svc.socket,
                                         <<p[1], p[2]>>, "")
                 IN /\ was => /\ svc'.joinedConversations
                                    = svc.joinedConversations
                              /\ emits' = <<>>
                    /\ ~was => /\ svc'.joinedConversations
                                     = Append(svc.joinedConversations, key)
                               /\ emits' = IF SocketConnected(ClientState)
                                           THEN <<join>> ELSE <<>>
       /\ (/\ called' = "on connect"
           /\ svc.socket # 0
           /\ TransportConnect(svc.socket)) =>
              \A i \in 1..Len(svc.joinedConversations) :
                  \E j \in 1..Len(emits') :
                      /\ emits'[j].ev = "conversation:join"
                      /\ JoinKey(emits'[j]) = svc.joinedConversations[i]]_vars

\* C18 as stated: when the socket created by connect(url, userId) connects
\* while userId is still the current user id, exactly one user:identify is
\* emitted for that event, and it carries userId.
C18_IdentifyOnce ==
    [][(/\ called' = "on connect"
        /\ svc.socket # 0
        /\ transports[svc.socket].identifyAs # <<>>
        /\ transports[svc.socket].identifyAs = svc.currentUserId
        /\ TransportConnect(svc.socket)) =>
           EventsOf(emits', "user:identify")
               = <<ClientEvent("user:identify", svc.socket,
                               svc.currentUserId, "")>>]_vars

(* ------------------------------ useTyping ----------------------------- *)

\* useUserStore's currentUser of this client
CurrentUser == [id |-> 1, name |-> "Ann"]

TypingUser(userId, userName) == [userId |-> userId, userName |-> userName]

\* handleTypingStart's setTypingUsers updater
AddTypingUser(prev, data) ==
    IF \E i \in 1..Len(prev) : prev[i].userId = data.userId
    THEN [i \in 1..Len(prev) |->
             IF prev[i].userId = data.userId
             THEN TypingUser(data.userId, data.userName)
             ELSE prev[i]]
    ELSE Append(prev, TypingUser(data.userId, data.userName))

handleTypingStart(hook, data) ==
    IF data.userId # CurrentUser.id
    THEN [hook EXCEPT !.typingUsers = AddTypingUser(@, data)]
    ELSE hook

handleTypingStop(hook, data) ==
    IF data.userId # CurrentUser.id
    THEN [hook EXCEPT !.typingUsers =
                          SelectSeq(@, LAMBDA u : u.userId # data.userId)]
    ELSE hook

\* the listeners effect at mount: socketService.onTypingStart / onTypingStop
\* register on the socket the service holds, and on nothing if it has none
UseTypingEffect ==
    /\ ~typingHook.mounted
    /\ Truthy(typingHook.recipientId)
    /\ typingHook' = [typingHook EXCEPT !.mounted = TRUE,
                                        !.listeningOn = svc.socket]
    /\ called' = "useTyping effect"
    /\ emits' = <<>>
    /\ UNCHANGED <<svc, transports, returned, chatActions, clientLog>>
    /\ ServerUnchanged

\* socket h delivers a typing:start to the registered listener
OnTypingStart(h, userId, userName) ==
    /\ transports[h].state = "connected"
    /\ typingHook.listeningOn = h
    /\ typingHook' = handleTypingStart(
                         typingHook,
                         TypingStartEvent(userId, CurrentUser.id, userName))
    /\ called' = "on typing:start"
    /\ emits' = <<>>
    /\ UNCHANGED <<svc, transports, returned, chatActions, clientLog>>
    /\ ServerUnchanged

\* socket h delivers a typing:stop to the registered listener
OnTypingStop(h, userId) ==
    /\ transports[h].state = "connected"
    /\ typingHook.listeningOn = h
    /\ typingHook' = handleTypingStop(
                         typingHook, TypingStopEvent(userId, CurrentUser.id))
    /\ called' = "on typing:stop"
    /\ emits' = <<>>
    /\ UNCHANGED <<svc, transports, returned, chatActions, clientLog>>
    /\ ServerUnchanged

(* ----------------------------- SpecReconnect -------------------------- *)
(* one client: its socket connecting, dropping and reconnecting, the      *)
(* rooms it joins and the typing events it receives                       *)

\* the recipients whose conversations the client joins
JoinRecipients == {2, 3}

\* the users whose typing events arrive: the client's own user and two peers
TypingPeers == {1, 2, 3}

NextReconnect ==
    \/ SvcConnect(<<CurrentUser.id>>)
    \/ \E r \in JoinRecipients : SvcJoin(CurrentUser.id, r)
    \/ UseTypingEffect
    \/ \E h \in Handles : TransportConnect(h)
    \/ \E h \in Handles : TransportDisconnect(h)
    \/ \E h \in Handles, u \in TypingPeers, n \in UserNames :
          OnTypingStart(h, u, n)
    \/ \E h \in Handles, u \in TypingPeers : OnTypingStop(h, u)

SpecReconnect == InitServer /\ [][NextReconnect]_vars

\* C17 as stated: when the socket of a client that joined two rooms
\* reconnects after a disconnect event, exactly one conversation:join per
\* room is emitted, and afterwards typingUsers holds no indicator, all of
\* them having been received before the disconnect.
C17_ReconnectReplaysAndClears ==
    [][(/\ called' = "on connect"
        /\ svc.socket # 0
        /\ transports[svc.socket].state = "disconnected"
        /\ typingHook.listeningOn = svc.socket
        /\ Len(svc.joinedConversations) = 2
        /\ TransportConnect(svc.socket)) =>
           /\ \A i \in 1..2 : JoinedOnce(emits', svc.joinedConversations[i])
           /\ Len(EventsOf(emits', "conversation:join")) = 2
           /\ typingHook'.typingUsers = <<>>]_vars

(* ------------------- useChatActions driving useTyping ----------------- *)

\* the throttle window of handleTypingChange, ms
T_throttle == 500

\* the inactivity timeout of handleTypingChange, ms
D_client == 2000

\* the auto-stop timeout of useTyping.startTyping, ms
D_hook == 3000

\* the client clock advances by the throttle window
ClientTickMs == T_throttle

\* SocketService.startTyping
startTyping(cs, userId, recipientId, userName) ==
    SvcEmit(joinConversation(cs, userId, recipientId),
            "typing:start", <<userId, recipientId>>, userName)

\* SocketService.stopTyping
stopTyping(cs, userId, recipientId) ==
    SvcEmit(cs, "typing:stop", <<userId, recipientId>>, "")

\* the hook and the service together, as the hook's callbacks change them
UiState == [hook |-> typingHook, cs |-> ClientState]

\* useTyping.startTyping
useTypingStart(ui) ==
    IF ~Truthy(ui.hook.recipientId) \/ ui.hook.isTypingRef THEN ui
    ELSE [hook |-> [ui.hook EXCEPT !.isTypingRef = TRUE,
                                   !.typingTimeoutRef = <<now + D_hook>>],
          cs |-> startTyping(ui.cs, CurrentUser.id, ui.hook.recipientId,
                             CurrentUser.name)]

\* a stopTyping that leaves the hook's timeout pending
useTypingStopKeepsTimeout(ui, recipientId) ==
    IF ~Truthy(recipientId) \/ ~ui.hook.isTypingRef THEN ui
    ELSE [hook |-> [ui.hook EXCEPT !.isTypingRef = FALSE],
          cs |-> stopTyping(ui.cs, CurrentUser.id, recipientId)]

\* useTyping.stopTyping, the callback made while the hook's recipient was
\* recipientId
useTypingStop(ui, recipientId) ==
    IF ~Truthy(recipientId) \/ ~ui.hook.isTypingRef THEN ui
    ELSE [hook |-> [ui.hook EXCEPT !.isTypingRef = FALSE,
                                   !.typingTimeoutRef = <<>>],
          cs |-> stopTyping(ui.cs, CurrentUser.id, recipientId)]

\* if (now - lastTypingRef.current > 500)
ThrottlePassed == now - chatActions.lastTypingRef > T_throttle

\* the history of calls and emissions after a step that left the hook and
\* the service as ui: the typing:stop emissions are counted per typing
\* session, which begins when isTypingRef is set
Logged(isTyping, ui) ==
    LET seq == ui.cs.emits
        begun == ui.hook.isTypingRef /\ ~typingHook.isTypingRef
        stops == Len(SelectSeq(seq, LAMBDA e : e.ev = "typing:stop"))
    IN
    [lastCall |-> IF isTyping THEN <<now>> ELSE clientLog.lastCall,
     lastStart |-> IF \E i \in 1..Len(seq) : seq[i].ev = "typing:start"
                   THEN <<now>> ELSE clientLog.lastStart,
     sessionStops |-> (IF begun THEN 0 ELSE clientLog.sessionStops) + stops,
     startFor |-> IF \E i \in 1..Len(seq) : seq[i].ev = "typing:start"
                  THEN ui.hook.recipientId ELSE clientLog.startFor]

\* useChatActions.handleTypingChange(isTyping), the setTyping of the input
HandleTypingChange(isTyping) ==
    LET ui == IF ~isTyping
              THEN useTypingStop(UiState, typingHook.recipientId)
              ELSE IF ThrottlePassed THEN useTypingStart(UiState)
              ELSE UiState
    IN
    /\ typingHook' = ui.hook
    /\ Commit(ui.cs, IF isTyping THEN "setTyping(true)"
                     ELSE "setTyping(false)")
    /\ chatActions' =
          IF isTyping
          THEN [lastTypingRef |-> IF ThrottlePassed THEN now
                                  ELSE chatActions.lastTypingRef,
                typingTimeoutRef |-> <<now + D_client>>,
                stopFor |-> typingHook.recipientId]
          ELSE [chatActions EXCEPT !.typingTimeoutRef = <<>>,
                                   !.stopFor = 0]
    /\ clientLog' = Logged(isTyping, ui)
    /\ UNCHANGED returned
    /\ ServerUnchanged

\* the timeout set by handleTypingChange fires
ChatActionsTimeout ==
    /\ chatActions.typingTimeoutRef # <<>>
    /\ chatActions.typingTimeoutRef[1] <= now
    /\ LET ui == useTypingStop(UiState, chatActions.stopFor) IN
       /\ typingHook' = ui.hook
       /\ Commit(ui.cs, "chatActions timeout")
       /\ clientLog' = Logged(FALSE, ui)
    /\ chatActions' = [chatActions EXCEPT !.typingTimeoutRef = <<>>,
                                          !.stopFor = 0]
    /\ UNCHANGED returned
    /\ ServerUnchanged

\* the timeout set by useTyping.startTyping fires
UseTypingTimeout ==
    /\ typingHook.typingTimeoutRef # <<>>
    /\ typingHook.typingTimeoutRef[1] <= now
    /\ LET ui == useTypingStop([UiState EXCEPT
                                   !.hook.typingTimeoutRef = <<>>],
                               typingHook.recipientId) IN
       /\ typingHook' = ui.hook
       /\ Commit(ui.cs, "useTyping timeout")
       /\ clientLog' = Logged(FALSE, ui)
    /\ UNCHANGED <<returned, chatActions>>
    /\ ServerUnchanged

\* what the user submits while typing
SendContents == {<<>>, <<"a">>}

\* useChatActions.handleSendMessage with useSocket's sendMessage: the send,
\* then stopTyping and clearTimeout
SendMessageAndStop(content) ==
    LET blank == ~Truthy(typingHook.recipientId) \/ Trim(content) = <<>>
        cs1 == SvcEmit(ClientState, "message:send",
                       <<CurrentUser.id, typingHook.recipientId,
                         Trim(content)>>, "")
        ui == IF blank THEN UiState
              ELSE useTypingStop([UiState EXCEPT !.cs = cs1],
                                 typingHook.recipientId)
    IN
    /\ typingHook' = ui.hook
    /\ Commit(ui.cs, IF blank THEN "send nothing" ELSE "send")
    /\ chatActions' = IF blank THEN chatActions
                      ELSE [chatActions EXCEPT !.typingTimeoutRef = <<>>,
                                               !.stopFor = 0]
    /\ clientLog' = Logged(FALSE, ui)
    /\ UNCHANGED returned
    /\ ServerUnchanged

\* the client clock advances; a timeout that is due fires first
ClientTick ==
    /\ now < StartTime + MaxClientTicks * ClientTickMs
    /\ chatActions.typingTimeoutRef # <<>> =>
          chatActions.typingTimeoutRef[1] > now
    /\ typingHook.typingTimeoutRef # <<>> =>
          typingHook.typingTimeoutRef[1] > now
    /\ now' = now + ClientTickMs
    /\ UNCHANGED <<keyVars, svcVars, hookVars, sockVars, msgVars,
                   typingVars, inbox, clientVars, httpResponse>>

(* --------------------------- SpecClientTyping ------------------------- *)
(* one client typing: its socket connecting, the input's setTyping calls, *)
(* the two timeouts and the clock                                         *)

NextClientTyping ==
    \/ SvcConnect(<<CurrentUser.id>>)
    \/ \E h \in Handles : TransportConnect(h)
    \/ \E isTyping \in BOOLEAN : HandleTypingChange(isTyping)
    \/ \E content \in SendContents : SendMessageAndStop(content)
    \/ ChatActionsTimeout
    \/ UseTypingTimeout
    \/ ClientTick

SpecClientTyping == InitServer /\ [][NextClientTyping]_vars

\* C19 as stated: on setTyping(true) of a connected client a typing:start
\* is emitted if and only if more than T_throttle ms have passed since the
\* last typing:start emission (or there was none), and in either case the
\* inactivity timeout is armed anew for D_client ms.
C19_StartIffThrottleElapsed ==
    [][(/\ called' = "setTyping(true)"
        /\ SocketConnected(ClientState)
        /\ HandleTypingChange(TRUE)) =>
           LET elapsed == \/ clientLog.lastStart = <<>>
                          \/ now - clientLog.lastStart[1] > T_throttle
           IN /\ (EventsOf(emits', "typing:start") # <<>>) <=> elapsed
              /\ chatActions'.typingTimeoutRef = <<now + D_client>>]_vars

\* C20 as stated: every setTyping(true) arms the inactivity timeout anew,
\* and a timeout emits typing:stop only when D_client ms have passed since
\* the last setTyping(true).
C20_AutoStopOnlyAfterInactivity ==
    [][/\ (called' = "setTyping(true)" /\ HandleTypingChange(TRUE)) =>
             chatActions'.typingTimeoutRef = <<now + D_client>>
       /\ (/\ called' \in {"chatActions timeout", "useTyping timeout"}
           /\ ChatActionsTimeout \/ UseTypingTimeout
           /\ EventsOf(emits', "typing:stop") # <<>>) =>
              /\ clientLog.lastCall # <<>>
              /\ now - clientLog.lastCall[1] >= D_client]_vars

\* C21: when a connected client in the typing state calls setTyping(false)
\* or sends a message, that step emits one typing:stop, whatever the time
\* since the last typing:start, and leaves no timeout pending; a timeout
\* that fires outside the typing state emits nothing, and no typing session
\* ever has more than one typing:stop.
C21_ExplicitStopOnce ==
    [][/\ (/\ called' \in {"setTyping(false)", "send"}
           /\ typingHook.isTypingRef
           /\ SocketConnected(ClientState)
           /\ \/ HandleTypingChange(FALSE)
              \/ \E content \in SendContents : SendMessageAndStop(content))
          => /\ Len(EventsOf(emits', "typing:stop")) = 1
             /\ ~typingHook'.isTypingRef
             /\ typingHook'.typingTimeoutRef = <<>>
             /\ chatActions'.typingTimeoutRef = <<>>
       /\ (/\ called' \in {"chatActions timeout", "useTyping timeout"}
           /\ ~typingHook.isTypingRef
           /\ ChatActionsTimeout \/ UseTypingTimeout)
          => EventsOf(emits', "typing:stop") = <<>>
       /\ clientLog'.sessionStops <= 1]_vars

\* setTyping(false) was called at the instant of the typing:start, inside
\* the throttle window, and the typing:stop went out
C21_Witness ==
    /\ called = "setTyping(false)"
    /\ clientLog.lastStart = <<now>>
    /\ clientLog.sessionStops = 1
    /\ EventsOf(emits, "typing:stop") # <<>>
    /\ chatActions.typingTimeoutRef = <<>>
    /\ typingHook.typingTimeoutRef = <<>>

(* ------------------------------ SpecTarget ---------------------------- *)
(* the typing client of SpecClientTyping whose current recipient changes  *)

\* the recipients the user switches between
TargetIds == {2, 3}

\* currentRecipient changes to r: ChatTab renders again, the cleanups of
\* the useTyping listeners effect and of ChatTab's effect run (the latter
\* calls the stopTyping of the new render), then the listeners effect and
\* the recipient effect of useTyping run; useChatActions has no effect
RecipientChange(r) ==
    /\ typingHook.mounted
    /\ r # typingHook.recipientId
    /\ LET rendered == [typingHook EXCEPT !.recipientId = r,
                                          !.typingUsers = <<>>]
           ui == useTypingStop([hook |-> rendered, cs |-> ClientState], r)
       IN /\ typingHook' = [ui.hook EXCEPT !.listeningOn = svc.socket,
                                           !.isTypingRef = FALSE,
                                           !.typingTimeoutRef = <<>>]
          /\ Commit(ui.cs, "recipient change")
          /\ clientLog' = Logged(FALSE, ui)
    /\ UNCHANGED <<returned, chatActions>>
    /\ ServerUnchanged

NextTarget ==
    \/ SvcConnect(<<CurrentUser.id>>)
    \/ \E h \in Handles : TransportConnect(h)
    \/ UseTypingEffect
    \/ \E r \in TargetIds : RecipientChange(r)
    \/ \E isTyping \in BOOLEAN : HandleTypingChange(isTyping)
    \/ ChatActionsTimeout
    \/ UseTypingTimeout
    \/ ClientTick

SpecTarget == InitServer /\ [][NextTarget]_vars

\* C22 as stated: a change of the recipient leaves no timeout pending and
\* the throttle bookkeeping as at the start, and a setTyping(true) of a
\* connected client whose last typing:start was emitted for another
\* recipient emits typing:start.
C22_TargetChangeResetsTiming ==
    [][/\ \A r \in TargetIds :
             (called' = "recipient change" /\ RecipientChange(r)) =>
                 /\ typingHook'.typingTimeoutRef = <<>>
                 /\ chatActions'.typingTimeoutRef = <<>>
                 /\ chatActions'.lastTypingRef = 0
       /\ (/\ called' = "setTyping(true)"
           /\ SocketConnected(ClientState)
           /\ clientLog.startFor \notin {0, typingHook.recipientId}
           /\ HandleTypingChange(TRUE)) =>
              EventsOf(emits', "typing:start") # <<>>]_vars

(* --------------------------- useMessagesLoader ------------------------ *)
(* The hook is mounted with ChatTab and has userId = CurrentUser.id; its  *)
(* loadingRef belongs to the mounted instance. A request in flight is a   *)
(* record of the instance and the closure of the effect that issued it.   *)

\* the client whose store the loader fills
LoaderClient == "c1"

\* useMessagesStore setConversationMessages
setConversationMessages(convs, key, messages) == MapSet(convs, key, messages)

\* data.messages of the response to a request: one message of the
\* conversation asked for
HistoryOf(userId, recipientId) ==
    <<[id |-> <<"msg", 0, recipientId>>, senderId |-> recipientId,
       recipientId |-> userId, content |-> <<"h", "i">>,
       timestamp |-> StartTime]>>

\* how a request ends: an OK response with messages, a response that is
\* not OK, an OK response whose body has an error field, a rejected fetch
FetchOutcomes == {"ok", "not ok", "error field", "rejected"}

\* the effect of useMessagesLoader for the props (userId, recipientId)
LoaderEffect(ld, userId, recipientId) ==
    IF ~Truthy(recipientId) \/ recipientId = 0 \/ ld.loadingRef THEN ld
    ELSE [ld EXCEPT
            !.loadingRef = TRUE,
            !.issued = @ + 1,
            !.fetches = @ \cup {[id |-> ld.issued + 1,
                                 instance |-> ld.instance,
                                 userId |-> userId,
                                 recipientId |-> recipientId,
                                 conversationKey |->
                                     storeConversationKey(userId,
                                                          recipientId)]}]

LoaderUnchanged ==
    UNCHANGED <<keyVars, now, sockVars, msgVars, typingVars, inbox,
                uplink, received, httpResponse, svc, transports, emits,
                returned, typingHook, chatActions, clientLog, grouping,
                formatting, thrown>>

\* the chat tab is shown: ChatTab mounts with a new useMessagesLoader
LoaderMount ==
    /\ ~loader.mounted
    /\ loader.instance < MaxMounts
    /\ LET ld == [loader EXCEPT !.mounted = TRUE, !.instance = @ + 1,
                                !.loadingRef = FALSE]
       IN /\ LoaderEffect(ld, CurrentUser.id, ld.recipientId).issued
                <= MaxFetches
          /\ loader' = LoaderEffect(ld, CurrentUser.id, ld.recipientId)
    /\ called' = "mount"
    /\ UNCHANGED store
    /\ LoaderUnchanged

\* the profile tab is shown: ChatTab unmounts
LoaderUnmount ==
    /\ loader.mounted
    /\ loader' = [loader EXCEPT !.mounted = FALSE]
    /\ called' = "unmount"
    /\ UNCHANGED store
    /\ LoaderUnchanged

\* currentRecipient changes to r (0: none) while ChatTab is mounted
LoaderRecipient(r) ==
    /\ loader.mounted
    /\ r # loader.recipientId
    /\ LET ld == [loader EXCEPT !.recipientId = r]
       IN /\ LoaderEffect(ld, CurrentUser.id, r).issued <= MaxFetches
          /\ loader' = LoaderEffect(ld, CurrentUser.id, r)
    /\ called' = "recipient"
    /\ UNCHANGED store
    /\ LoaderUnchanged

\* a key taken from the props at the time the response arrives
CurrentKey(f, ld) == storeConversationKey(CurrentUser.id, ld.recipientId)

\* const conversationKey of the effect that issued the request
IssuedKey(f, ld) == f.conversationKey

\* a failure that leaves the store as it is
FailureKeepsStore(convs, key) == convs

\* catch: setConversationMessages(conversationKey, [])
FailureEmptiesStore(convs, key) == setConversationMessages(convs, key, <<>>)

\* finally: loadingRef.current = false, on the ref of the issuing instance
LoaderFinally(ld, f) ==
    [ld EXCEPT !.fetches = @ \ {f},
               !.loadingRef = IF f.instance = ld.instance THEN FALSE ELSE @]

\* the request f ends with the outcome: the rest of loadMessages
FetchDone(f, outcome) ==
    /\ f \in loader.fetches
    /\ LET key == IssuedKey(f, loader)
           convs == store[LoaderClient]
       IN IF outcome = "ok"
          THEN /\ store' = [store EXCEPT ![LoaderClient] =
                               setConversationMessages(
                                   convs, key,
                                   HistoryOf(f.userId, f.recipientId))]
               /\ loader' = LoaderFinally(loader, f)
          ELSE /\ store' = [store EXCEPT ![LoaderClient] =
                               FailureEmptiesStore(convs, key)]
               /\ loader' = [LoaderFinally(loader, f) EXCEPT
                                !.logged = @ + 1]
    /\ called' = IF outcome = "ok" THEN "fetch ok" ELSE "fetch failed"
    /\ LoaderUnchanged

(* ------------------------------ SpecLoader ---------------------------- *)

\* the recipients the user selects; 0 is no recipient
LoaderRecipients == {0, 2, 3}

NextLoader ==
    \/ LoaderMount
    \/ LoaderUnmount
    \/ \E r \in LoaderRecipients : LoaderRecipient(r)
    \/ \E f \in loader.fetches, outcome \in FetchOutcomes :
          FetchDone(f, outcome)

SpecLoader == InitServer /\ [][NextLoader]_vars

\* the request that the step completes
Completed == loader.fetches \ loader'.fetches

\* C23 as stated: at no time are two history requests in flight for the
\* same conversation.
C23_OneFetchPerConversation ==
    \A f, g \in loader.fetches :
        f.conversationKey = g.conversationKey => f = g

\* C24: the step that completes a request, with success or failure, sets
\* in the store the conversation of the (userId, recipientId) the request
\* was issued for and changes no other conversation, whatever the current
\* recipient is by then.
C24_ResultKeyedByIssuer ==
    [][called' \in {"fetch ok", "fetch failed"} =>
          \A f \in Completed :
              LET key == storeConversationKey(f.userId, f.recipientId)
                  before == store[LoaderClient]
                  after == store'[LoaderClient]
              IN /\ DOMAIN after = DOMAIN before \cup {key}
                 /\ \A k \in DOMAIN before : k # key => after[k] = before[k]
                 /\ after[key] \in {<<>>, HistoryOf(f.userId, f.recipientId)}
      ]_vars

\* the history of conversation 1-2 arrived after the user had moved on to
\* recipient 3, and the store holds it under conversation_1_2 only
C24_Witness ==
    /\ called = "fetch ok"
    /\ loader.recipientId = 3
    /\ DOMAIN store[LoaderClient] = {storeConversationKey(1, 2)}
    /\ store[LoaderClient][storeConversationKey(1, 2)] = HistoryOf(1, 2)

\* C25: the step that completes a request with a failure sets the
\* conversation the request was issued for to the empty list, logs one
\* error, ends the request and clears the loadingRef of the instance that
\* issued it.
C25_FailureLeavesEmptyList ==
    [][called' = "fetch failed" =>
          \A f \in Completed :
              /\ f.conversationKey \in DOMAIN store'[LoaderClient]
              /\ store'[LoaderClient][f.conversationKey] = <<>>
              /\ loader'.logged = loader.logged + 1
              /\ loader'.fetches = loader.fetches \ {f}
              /\ f.instance = loader.instance => ~loader'.loadingRef
      ]_vars

\* the second request for conversation 1-2 failed after the first had
\* filled it: the conversation is the empty list and a load can run again
C25_Witness ==
    /\ called = "fetch failed"
    /\ loader.issued = 2
    /\ loader.logged = 1
    /\ loader.fetches = {}
    /\ ~loader.loadingRef
    /\ DOMAIN store[LoaderClient] = {storeConversationKey(1, 2)}
    /\ store[LoaderClient][storeConversationKey(1, 2)] = <<>>

(* ----------------------------- groupMessages -------------------------- *)
(* A message is [id, senderId, timestamp]; the timestamp stands for the   *)
(* ISO string of a day by its hour, second and millisecond fields.        *)

ONE_HOUR == 60 * 60 * 1000
TWENTY_SECONDS == 20 * 1000

\* new Date(timestamp).getTime(), from the start of the day
GetTime(timestamp) ==
    timestamp[1] * ONE_HOUR + timestamp[2] * 1000 + timestamp[3]

\* a sort that puts a message before the messages of its own time
BeforeTies(earlier, later) ==
    GetTime(earlier.timestamp) < GetTime(later.timestamp)

\* the comparator's order: a message stays behind the messages that are
\* not later than it, the sort being stable
AfterTies(earlier, later) ==
    GetTime(earlier.timestamp) <= GetTime(later.timestamp)

\* one message put in its place in a sorted sequence
RECURSIVE Insert(_, _)
Insert(sorted, m) ==
    IF sorted = <<>> THEN <<m>>
    ELSE IF AfterTies(sorted[Len(sorted)], m) THEN Append(sorted, m)
    ELSE Append(Insert(SubSeq(sorted, 1, Len(sorted) - 1), m),
                sorted[Len(sorted)])

RECURSIVE StableSort(_, _)
StableSort(messages, n) ==
    IF n = 0 THEN <<>> ELSE Insert(StableSort(messages, n - 1), messages[n])

\* the messages in argument order
unsortedMessages(messages) == messages

\* [...messages].sort((a, b) => getTime(a) - getTime(b))
sortedMessages(messages) == StableSort(messages, Len(messages))

\* timeDiff >= ONE_HOUR
AtLeastOneHour(timeDiff) == timeDiff >= ONE_HOUR

\* timeDiff > ONE_HOUR
MoreThanOneHour(timeDiff) == timeDiff > ONE_HOUR

\* timeDiff < TWENTY_SECONDS
LessThanTwentySeconds(timeDiff) == timeDiff < TWENTY_SECONDS

\* timeDiff <= TWENTY_SECONDS
WithinTwentySeconds(timeDiff) == timeDiff <= TWENTY_SECONDS

\* a test that lets system messages be grouped
AnySender(senderId) == TRUE

\* currentMsg.senderId !== 0
NotSystem(senderId) == senderId # 0

MessageGroup(messages, showTimestamp) ==
    [messages |-> messages, showTimestamp |-> showTimestamp]

\* the for loop from index i on (1-based), and the push of the last group
RECURSIVE GroupLoop(_, _, _, _, _)
GroupLoop(sorted, i, groups, currentGroup, showTimestamp) ==
    IF i > Len(sorted)
    THEN IF Len(currentGroup) > 0
         THEN Append(groups, MessageGroup(currentGroup, showTimestamp))
         ELSE groups
    ELSE LET currentMsg == sorted[i]
             prevMsg == sorted[i - 1]
             timeDiff == GetTime(currentMsg.timestamp)
                             - GetTime(prevMsg.timestamp)
             pushed == Append(groups,
                              MessageGroup(currentGroup, showTimestamp))
         IN IF MoreThanOneHour(timeDiff)
            THEN GroupLoop(sorted, i + 1, pushed, <<currentMsg>>, TRUE)
            ELSE IF /\ currentMsg.senderId = prevMsg.senderId
                    /\ WithinTwentySeconds(timeDiff)
                    /\ NotSystem(currentMsg.senderId)
            THEN GroupLoop(sorted, i + 1, groups,
                           Append(currentGroup, currentMsg), showTimestamp)
            ELSE GroupLoop(sorted, i + 1, pushed, <<currentMsg>>, FALSE)

groupMessages(messages) ==
    IF Len(messages) = 0 THEN <<>>
    ELSE LET sorted == sortedMessages(messages)
         IN GroupLoop(sorted, 2, <<>>, <<sorted[1]>>, TRUE)

\* the messages of the groups, in order
RECURSIVE Flatten(_)
Flatten(groups) ==
    IF groups = <<>> THEN <<>>
    ELSE Head(groups).messages \o Flatten(Tail(groups))

(* ------------------------------ SpecGroup ----------------------------- *)
(* groupMessages applied to an argument, to a permutation of it, and to  *)
(* the flattened result                                                   *)

\* senders: the system and two users
GroupSenders == {SYSTEM, 1, 2}

\* timestamps 20 000 ms, 20 001 ms, 1 ms, 3 600 000 ms and 3 600 001 ms
\* apart
GroupTimestamps == {<<10, 0, 0>>, <<10, 20, 0>>, <<10, 20, 1>>, <<11, 20, 1>>}

\* the arguments: up to MaxMsgs messages, the id being the position in the
\* argument
GroupInputs ==
    UNION {[1..n -> GroupSenders \X GroupTimestamps] : n \in 0..MaxMsgs}

MessagesOf(input) ==
    [i \in 1..Len(input) |->
        [id |-> i, senderId |-> input[i][1], timestamp |-> input[i][2]]]

\* the orders in which n messages can be delivered
DeliveryOrders(n) ==
    {p \in [1..n -> 1..n] : \A i, j \in 1..n : p[i] = p[j] => i = j}

InitGroup ==
    /\ keyFn = "none"
    /\ keyArgs = <<0, 0>>
    /\ keyResult = <<>>
    /\ \E input \in GroupInputs :
          grouping = [NoGrouping EXCEPT !.phase = "argument",
                                        !.messages = MessagesOf(input)]
    /\ formatting = NoFormatting
    /\ ServerInit

GroupUnchanged ==
    UNCHANGED <<keyVars, now, sockVars, msgVars, typingVars, inbox,
                clientVars, httpResponse, svcVars, typingHook, chatActions,
                clientLog, loader, formatting, thrown>>

\* groupMessages(messages)
Group ==
    /\ grouping.phase = "argument"
    /\ grouping' = [grouping EXCEPT
                      !.phase = "grouped",
                      !.result = groupMessages(grouping.messages)]
    /\ GroupUnchanged

\* groupMessages of the messages delivered in the order p
GroupPermuted(p) ==
    /\ grouping.phase = "grouped"
    /\ LET permuted == [i \in 1..Len(grouping.messages) |->
                           grouping.messages[p[i]]]
       IN grouping' = [grouping EXCEPT
                         !.phase = "permuted",
                         !.permuted = permuted,
                         !.resultPermuted = groupMessages(permuted)]
    /\ GroupUnchanged

\* groupMessages of the flattened result
Regroup ==
    /\ grouping.phase = "grouped"
    /\ grouping' = [grouping EXCEPT
                      !.phase = "regrouped",
                      !.regrouped = groupMessages(Flatten(grouping.result))]
    /\ GroupUnchanged

NextGroup ==
    \/ Group
    \/ /\ grouping.phase = "grouped"
       /\ \E p \in DeliveryOrders(Len(grouping.messages)) : GroupPermuted(p)
    \/ Regroup

SpecGroup == InitGroup /\ [][NextGroup]_vars

(* ------------------------ groupMessages properties -------------------- *)

\* groupMessages has returned for the argument
HasResult == grouping.phase \in {"grouped", "permuted", "regrouped"}

\* the timestamp-sorted sequence, read off the result
SortedOf(groups) == Flatten(groups)

\* position in the sorted sequence of the first message of group j
RECURSIVE FirstOf(_, _)
FirstOf(groups, j) ==
    IF j = 1 THEN 1
    ELSE FirstOf(groups, j - 1) + Len(groups[j - 1].messages)

\* the positions of the sorted sequence at which a group begins
Starts(groups) == {FirstOf(groups, j) : j \in 1..Len(groups)}

\* ms from the message at position k - 1 to the one at position k
Gap(sorted, k) ==
    GetTime(sorted[k].timestamp) - GetTime(sorted[k - 1].timestamp)

\* the result holds the messages of the argument, each once, in timestamp
\* order
IsSortedArgument(sorted, messages) ==
    /\ Len(sorted) = Len(messages)
    /\ {sorted[k] : k \in 1..Len(sorted)}
          = {messages[k] : k \in 1..Len(messages)}
    /\ \A k \in 2..Len(sorted) : Gap(sorted, k) >= 0

\* C26: in the result, a message of the sorted sequence is in the group of
\* the message before it if and only if both have the same sender, the
\* sender is not the system, and the message is at most 20 000 ms after the
\* one before it.
C26_MergeWithinTwentySeconds ==
    HasResult =>
        LET sorted == SortedOf(grouping.result) IN
        /\ IsSortedArgument(sorted, grouping.messages)
        /\ \A k \in 2..Len(sorted) :
              (k \notin Starts(grouping.result)) <=>
                  /\ sorted[k].senderId = sorted[k - 1].senderId
                  /\ sorted[k].senderId # SYSTEM
                  /\ Gap(sorted, k) <= 20 * 1000

\* one group of three messages: the second exactly 20 000 ms after the
\* first, the third 20 001 ms after the first
C26_Witness ==
    /\ grouping.phase = "grouped"
    /\ Len(grouping.result) = 1
    /\ LET sorted == SortedOf(grouping.result) IN
       /\ Len(sorted) = 3
       /\ Gap(sorted, 2) = 20000
       /\ Gap(sorted, 3) = 1

\* C27: a group of the result has showTimestamp exactly if it is the first
\* group or its first message is more than 3 600 000 ms after the message
\* before it in the sorted sequence; a message more than 3 600 000 ms after
\* the one before it always begins a group.
C27_HeaderAfterOneHour ==
    HasResult =>
        LET sorted == SortedOf(grouping.result) IN
        /\ \A j \in 1..Len(grouping.result) :
              grouping.result[j].showTimestamp <=>
                  \/ j = 1
                  \/ Gap(sorted, FirstOf(grouping.result, j))
                        > 60 * 60 * 1000
        /\ \A k \in 2..Len(sorted) :
              Gap(sorted, k) > 60 * 60 * 1000 =>
                  k \in Starts(grouping.result)

\* two messages of one sender 3 600 001 ms apart: the second begins a
\* group that shows its timestamp
C27_Witness ==
    /\ grouping.phase = "grouped"
    /\ Len(grouping.result) = 2
    /\ LET sorted == SortedOf(grouping.result) IN
       /\ Len(sorted) = 2
       /\ sorted[1].senderId = sorted[2].senderId
       /\ sorted[1].senderId # SYSTEM
       /\ Gap(sorted, 2) = 3600001
       /\ grouping.result[2].showTimestamp

\* C28: every system message of the result is the only message of its
\* group.
C28_SystemMessagesAlone ==
    HasResult =>
        \A j \in 1..Len(grouping.result) :
            LET messages == grouping.result[j].messages IN
            (\E k \in 1..Len(messages) : messages[k].senderId = SYSTEM)
                => Len(messages) = 1

\* three system messages at most 1 ms apart, in three groups
C28_Witness ==
    /\ grouping.phase = "grouped"
    /\ Len(grouping.messages) = 3
    /\ \A k \in 1..3 : grouping.messages[k].senderId = SYSTEM
    /\ \A k \in 1..3 : grouping.messages[k].timestamp[2] = 20
    /\ Len(grouping.result) = 3

\* C29: groupMessages of the flattened result of groupMessages is that
\* result.
C29_RegroupIsIdentity ==
    grouping.phase = "regrouped" => grouping.regrouped = grouping.result

\* an argument out of timestamp order with two messages of one time was
\* grouped, flattened and grouped again
C29_Witness ==
    /\ grouping.phase = "regrouped"
    /\ Len(grouping.messages) = 3
    /\ grouping.messages[1].timestamp = <<11, 20, 1>>
    /\ grouping.messages[2].timestamp = <<10, 20, 0>>
    /\ grouping.messages[3].timestamp = <<10, 20, 0>>
    /\ grouping.messages[2].senderId # grouping.messages[3].senderId
    /\ Len(grouping.regrouped) = 3

\* no two messages have the same time
DistinctTimes(messages) ==
    \A i, j \in 1..Len(messages) :
        GetTime(messages[i].timestamp) = GetTime(messages[j].timestamp)
            => i = j

\* position of the message in the sequence
PositionIn(seq, m) == CHOOSE k \in 1..Len(seq) : seq[k] = m

\* C30 as stated: groupMessages returns the same groups for every order
\* in which the messages of a collection are delivered, and leaves its
\* argument as it was.
C30_SameGroupsForEveryOrder ==
    [][/\ grouping'.phase = "permuted" =>
             grouping'.resultPermuted = grouping'.result
       /\ grouping.phase # "none" =>
             grouping'.messages = grouping.messages]_vars

\* C30 amended: groupMessages returns the same groups for every delivery
\* order of a collection whose timestamps are pairwise distinct; messages
\* of equal time stay in their delivery order; the argument is left as it
\* was.
C30_SameGroupsForDistinctTimes ==
    [][/\ grouping'.phase = "permuted" =>
             LET sorted == SortedOf(grouping'.resultPermuted)
                 permuted == grouping'.permuted
             IN /\ DistinctTimes(grouping'.messages) =>
                      grouping'.resultPermuted = grouping'.result
                /\ IsSortedArgument(sorted, grouping'.messages)
                /\ \A k \in 2..Len(sorted) :
                      Gap(sorted, k) = 0 =>
                          PositionIn(permuted, sorted[k - 1])
                              < PositionIn(permuted, sorted[k])
       /\ grouping.phase # "none" =>
             grouping'.messages = grouping.messages]_vars

\* three messages of distinct times, delivered latest first and then in
\* another order, gave the same two groups
C30_Witness ==
    /\ grouping.phase = "permuted"
    /\ Len(grouping.messages) = 3
    /\ DistinctTimes(grouping.messages)
    /\ GetTime(grouping.messages[1].timestamp)
          > GetTime(grouping.messages[3].timestamp)
    /\ grouping.permuted # grouping.messages
    /\ grouping.resultPermuted = grouping.result
    /\ Len(grouping.result) = 2

(* --------------------------- formatTimestamp -------------------------- *)

\* a Date in local time is [year, month, day, hour, minute]

IsLeapYear(year) ==
    \/ year % 4 = 0 /\ year % 100 # 0
    \/ year % 400 = 0

DaysInMonth(year, month) ==
    IF month = 2 THEN (IF IsLeapYear(year) THEN 29 ELSE 28)
    ELSE IF month \in {4, 6, 9, 11} THEN 30
    ELSE 31

\* date.toDateString(): the local calendar date (the weekday follows from
\* it)
toDateString(date) == <<date.month, date.day, date.year>>

\* date.setDate(day) for day >= 0: day 0 is the last day of the month
\* before
setDate(date, day) ==
    IF day >= 1 THEN [date EXCEPT !.day = day]
    ELSE IF date.month = 1
         THEN [date EXCEPT !.year = date.year - 1, !.month = 12,
                           !.day = DaysInMonth(date.year - 1, 12)]
         ELSE [date EXCEPT !.month = date.month - 1,
                           !.day = DaysInMonth(date.year, date.month - 1)]

\* minutes from the start of the year 2000 to the date
RECURSIVE DaysBeforeYear(_)
DaysBeforeYear(year) ==
    IF year = 2000 THEN 0
    ELSE DaysBeforeYear(year - 1)
            + (IF IsLeapYear(year - 1) THEN 366 ELSE 365)

RECURSIVE DaysBeforeMonth(_, _)
DaysBeforeMonth(year, month) ==
    IF month = 1 THEN 0
    ELSE DaysBeforeMonth(year, month - 1) + DaysInMonth(year, month - 1)

\* the number of the local calendar day of the date
DayNumber(date) ==
    DaysBeforeYear(date.year) + DaysBeforeMonth(date.year, date.month)
        + date.day

MinuteNumber(date) ==
    (DayNumber(date) * 24 + date.hour) * 60 + date.minute

\* the date is less than 24 hours before the other
LessThanADayBefore(date, other) ==
    /\ MinuteNumber(other) - MinuteNumber(date) >= 0
    /\ MinuteNumber(other) - MinuteNumber(date) < 24 * 60

\* date.toDateString() === other.toDateString()
SameDateString(date, other) == toDateString(date) = toDateString(other)

\* toLocaleTimeString([], {hour: "numeric", minute: "2-digit", hour12:
\* true}).toUpperCase()
toLocaleTimeString(date) ==
    [hour |-> IF date.hour % 12 = 0 THEN 12 ELSE date.hour % 12,
     minute |-> <<date.minute \div 10, date.minute % 10>>,
     dayPeriod |-> IF date.hour < 12 THEN "AM" ELSE "PM"]

MonthNames ==
    <<"January", "February", "March", "April", "May", "June", "July",
      "August", "September", "October", "November", "December">>

\* toUpperCase() of a month name
toUpperCase(name) ==
    CASE name = "January" -> "JANUARY"
      [] name = "February" -> "FEBRUARY"
      [] name = "March" -> "MARCH"
      [] name = "April" -> "APRIL"
      [] name = "May" -> "MAY"
      [] name = "June" -> "JUNE"
      [] name = "July" -> "JULY"
      [] name = "August" -> "AUGUST"
      [] name = "September" -> "SEPTEMBER"
      [] name = "October" -> "OCTOBER"
      [] name = "November" -> "NOVEMBER"
      [] name = "December" -> "DECEMBER"

\* formatTimestamp(date) called at the local time now
formatTimestamp(date, nowDate) ==
    IF SameDateString(date, nowDate)
    THEN [prefix |-> "Today", date |-> <<>>,
          time |-> toLocaleTimeString(date)]
    ELSE LET yesterday == setDate(nowDate, nowDate.day - 1) IN
         IF SameDateString(date, yesterday)
         THEN [prefix |-> "Yesterday", date |-> <<>>,
               time |-> toLocaleTimeString(date)]
         ELSE [prefix |-> "",
               date |-> <<toUpperCase(MonthNames[date.month]), date.day,
                          date.year>>,
               time |-> toLocaleTimeString(date)]

(* ------------------------------ SpecFormat ---------------------------- *)

FormatYears == {2023, 2024}
FormatMonths == {1, 2, 3, 12}
FormatDays == {1, 2, 28, 29, 30, 31}
\* <<hour, minute>>
FormatTimes == {<<0, 1>>, <<0, 30>>, <<23, 59>>}

FormatDates ==
    {[year |-> y, month |-> m, day |-> d, hour |-> t[1], minute |-> t[2]] :
        <<y, m, d, t>> \in
            {x \in FormatYears \X FormatMonths \X FormatDays \X FormatTimes :
                x[3] <= DaysInMonth(x[1], x[2])}}

InitFormat ==
    /\ keyFn = "none"
    /\ keyArgs = <<0, 0>>
    /\ keyResult = <<>>
    /\ grouping = NoGrouping
    /\ \E date \in FormatDates, nowDate \in FormatDates :
          formatting = [NoFormatting EXCEPT !.phase = "argument",
                                            !.date = date,
                                            !.now = nowDate]
    /\ ServerInit

\* formatTimestamp(date)
Format ==
    /\ formatting.phase = "argument"
    /\ formatting' =
          [formatting EXCEPT
              !.phase = "formatted",
              !.result = formatTimestamp(formatting.date, formatting.now)]
    /\ UNCHANGED <<keyVars, now, sockVars, msgVars, typingVars, inbox,
                   clientVars, httpResponse, svcVars, typingHook,
                   chatActions, clientLog, loader, grouping, thrown>>

NextFormat == Format

SpecFormat == InitFormat /\ [][NextFormat]_vars

\* C31: formatTimestamp returns the "Today" form exactly for a date on the
\* local calendar day of now, the "Yesterday" form exactly for a date on
\* the calendar day before it, and otherwise the full date with the month
\* in upper case.
C31_ClassifiedByCalendarDay ==
    formatting.phase = "formatted" =>
        LET date == formatting.date
            result == formatting.result
            days == DayNumber(formatting.now) - DayNumber(date)
        IN /\ result.prefix = "Today" <=> days = 0
           /\ result.prefix = "Yesterday" <=> days = 1
           /\ days \notin {0, 1} =>
                 /\ result.prefix = ""
                 /\ result.date[1] \in
                       {"JANUARY", "FEBRUARY", "MARCH", "DECEMBER"}
                 /\ result.date[2] = date.day
                 /\ result.date[3] = date.year

\* 23:59 on 29 February 2024 formatted at 00:30 on 1 March 2024
C31_Witness ==
    /\ formatting.phase = "formatted"
    /\ formatting.now =
          [year |-> 2024, month |-> 3, day |-> 1, hour |-> 0, minute |-> 30]
    /\ formatting.date =
          [year |-> 2024, month |-> 2, day |-> 29, hour |-> 23,
           minute |-> 59]
    /\ formatting.result.prefix = "Yesterday"
    /\ formatting.result.time.hour = 11
    /\ formatting.result.time.dayPeriod = "PM"

(* ---------------------------- SpecMalformed --------------------------- *)
(* the SocketHandler's events with and without payload                    *)

\* the events whose handler reads a field of its payload first
PayloadEvents ==
    {"conversation:join", "conversation:leave", "message:send",
     "typing:start", "typing:stop"}

\* reading a field of an undefined payload throws
ReadOfUndefined(event) == <<[event |-> event, error |-> "TypeError"]>>

\* the exception that leaves the handler: no handler has a try block
Escapes(event) == ReadOfUndefined(event)

\* socket.on(event) for an event emitted without payload: data.userId or
\* data.senderId of undefined is evaluated before the handler changes
\* anything
MissingPayload(c, event) ==
    /\ alive[c] = "open"
    /\ thrown' = Escapes(event)
    /\ UNCHANGED <<keyVars, svcVars, typingHook, chatActions, clientLog,
                   loader, grouping, formatting, now, sockVars, msgVars,
                   typingVars, inbox, clientVars, httpResponse>>

NextMalformed ==
    \/ \E c \in Conns : UserIdentify(c, OwnUser[c])
    \/ \E c \in Conns, p \in JoinPairs : ConversationJoin(c, p[1], p[2])
    \/ \E c \in Conns, p \in JoinPairs : ConversationLeave(c, p[1], p[2])
    \/ \E c \in Conns, p \in TypingPairs, n \in UserNames :
          TypingStart(c, p[1], p[2], n)
    \/ \E c \in Conns, event \in PayloadEvents : MissingPayload(c, event)
    \/ \E c \in Conns : Disconnect(c)

SpecMalformed == InitServer /\ [][NextMalformed]_vars

\* C32 as stated: the handler of an event without payload throws nothing
\* out of the handler, and leaves conversations, typing timers and room
\* membership as they were.
C32_HandlerFailuresCaught ==
    [][\A c \in Conns, event \in PayloadEvents :
          MissingPayload(c, event) =>
              /\ thrown' = <<>>
              /\ UNCHANGED <<conversations, typingUsers, timers, rooms>>]_vars

(* ------------------- useMessagesLoader: recipient change -------------- *)

\* C33 as stated, in the states where nothing more can happen without the
\* user: when ChatTab is mounted for a valid recipient and no request is
\* in flight, a request for that conversation was issued and its result
\* stored.
C33_NewRecipientLoaded ==
    (/\ loader.mounted
     /\ Truthy(loader.recipientId)
     /\ loader.fetches = {})
        => storeConversationKey(CurrentUser.id, loader.recipientId)
              \in DOMAIN store[LoaderClient]

(* ------------------- useTyping: stop on a target change --------------- *)

\* C34 as stated: when the recipient changes while the connected client is
\* typing, the last typing:stop the step emits carries the recipient the
\* client's typing:start was emitted for.
C34_FinalStopForOldTarget ==
    [][\A r \in TargetIds :
          (/\ called' = "recipient change"
           /\ typingHook.isTypingRef
           /\ SocketConnected(ClientState)
           /\ RecipientChange(r)) =>
              LET stops == EventsOf(emits', "typing:stop") IN
              /\ stops # <<>>
              /\ stops[Len(stops)].args[2] = clientLog.startFor]_vars

(* ---------------- disconnect of another connection of a user ---------- *)

\* C35 as stated: the disconnect of a connection leaves scheduled every
\* timeout that a different, still open connection identified with the
\* same userId created, and leaves that connection's typing state in its
\* room.
C35_DisconnectSparesOtherConnections ==
    [][\A c \in Conns :
          (alive'[c] = "closed" /\ Disconnect(c)) =>
              \A t \in timers :
                  (/\ t.socket # c
                   /\ alive[t.socket] = "open"
                   /\ userIdOf[t.socket] = userIdOf[c]) =>
                      /\ t \in timers'
                      /\ t.userId \in DOMAIN RoomTypers(typingUsers', t.room)
      ]_vars

(* -------------- useTyping: typing events of other rooms --------------- *)

\* C36 as stated: a typing:start that a connected client receives from a
\* user who is not the current recipient, for a room the client has joined,
\* does not put that user among typingUsers.
C36_OtherRoomsNotShown ==
    [][\A h \in Handles, u \in TypingPeers, n \in UserNames :
          (/\ called' = "on typing:start"
           /\ u \notin {CurrentUser.id, typingHook.recipientId}
           /\ InSeq(svc.joinedConversations,
                    socketConversationKey(CurrentUser.id, u))
           /\ OnTypingStart(h, u, n)) =>
              \A i \in 1..Len(typingHook'.typingUsers) :
                  typingHook'.typingUsers[i].userId # u]_vars

(* ------------------------------ SpecStore ----------------------------- *)
(* the store of the client of user 1 under history requests served by     *)
(* GET /api/messages and message:new deliveries for conversation 1-2      *)

\* the server handles the GET of request f
ServeHistory(f) ==
    /\ f \in loader.fetches
    /\ GetMessages(NumToString(f.userId), NumToString(f.recipientId))

\* the OK response the server made last arrives for request f: the rest of
\* loadMessages with data.messages of that response
FetchResponse(f) ==
    /\ f \in loader.fetches
    /\ httpResponse.status = 200
    /\ store' = [store EXCEPT ![LoaderClient] =
                    setConversationMessages(@, IssuedKey(f, loader),
                                            httpResponse.messages)]
    /\ loader' = LoaderFinally(loader, f)
    /\ called' = "fetch ok"
    /\ LoaderUnchanged

\* how a request fails
FetchFailures == FetchOutcomes \ {"ok"}

\* the recipient the user opens and closes
StoreRecipients == {0, RecipientId}

NextStore ==
    \/ LoaderMount
    \/ LoaderUnmount
    \/ \E r \in StoreRecipients : LoaderRecipient(r)
    \/ \E f \in loader.fetches : ServeHistory(f)
    \/ \E f \in loader.fetches : FetchResponse(f)
    \/ \E f \in loader.fetches, outcome \in FetchFailures :
          FetchDone(f, outcome)
    \/ ConversationJoin(LoaderClient, CurrentUser.id, RecipientId)
    \/ MessageSend("c2", RecipientId, CurrentUser.id, <<"a">>)
    \/ OnNewMessage(LoaderClient)

SpecStore == InitServer /\ [][NextStore]_vars

\* the ids of the messages the store holds for the conversation
StoredIds(convs, key) ==
    LET messages == Lookup(convs, key, <<>>) IN
    {messages[i].id : i \in 1..Len(messages)}

\* C37 as stated: every message the client received through message:new
\* is in its conversation in the store.
C37_ReceivedMessagesStay ==
    \A i \in 1..Len(received[LoaderClient]) :
        LET message == received[LoaderClient][i] IN
        message.id \in
            StoredIds(store[LoaderClient],
                      storeConversationKey(message.senderId,
                                           message.recipientId))

\* C38 as stated: no conversation of the store holds two messages with
\* the same id.
C38_NoDuplicateIds ==
    \A key \in DOMAIN store[LoaderClient] :
        LET messages == store[LoaderClient][key] IN
        \A i, j \in 1..Len(messages) :
            messages[i].id = messages[j].id => i = j

(* ------------------------------ SpecRooms ----------------------------- *)
(* one client whose single socket connects, drops and reconnects, and the *)
(* server handling what the client emits; emits holds the events the      *)
(* server has not handled yet                                             *)

\* (userId, recipientId) of joinConversation and leaveConversation: two
\* conversations of user 1, and one with the user id 0
RoomPairs == {<<1, 2>>, <<1, 3>>, <<0, 1>>}

\* the server's socket for the client's transport: a reconnection gets a
\* new one
ServerConn == IF alive["c1"] = "open" THEN "c1" ELSE "c2"

\* the server handles the oldest event the client emitted
ServerHandles ==
    LET e == Head(emits)
        c == ServerConn
    IN
    /\ emits # <<>>
    /\ alive[c] = "open"
    /\ rooms' =
          IF e.ev = "conversation:join"
          THEN [rooms EXCEPT ![c] = @ \cup {getRoomName(e.args[1],
                                                        e.args[2])}]
          ELSE IF e.ev = "conversation:leave"
          THEN [rooms EXCEPT ![c] = @ \ {getRoomName(e.args[1],
                                                     e.args[2])}]
          ELSE rooms
    /\ userIdOf' =
          IF e.ev = "user:identify"
          THEN [userIdOf EXCEPT ![c] = <<e.args[1]>>]
          ELSE userIdOf
    /\ emits' = Tail(emits)
    /\ UNCHANGED <<keyVars, now, alive, msgVars, typingVars, inbox,
                   clientVars, httpResponse, svc, transports, returned,
                   called, hookVars>>

\* the server has handled every event the client emitted
Handled == emits = <<>>

\* the server notices that the transport dropped
ServerDrops ==
    /\ transports # <<>>
    /\ transports[1].state = "disconnected"
    /\ rooms[ServerConn] # {}
    /\ Disconnect(ServerConn)

NextRooms ==
    \/ transports = <<>> /\ SvcConnect(<<CurrentUser.id>>)
    \/ Handled /\ \E p \in RoomPairs : SvcJoin(p[1], p[2])
    \/ Handled /\ \E p \in RoomPairs : SvcLeave(p[1], p[2])
    \/ /\ Handled
       /\ alive[ServerConn] = "open"
       /\ rooms[ServerConn] = {}
       /\ \E h \in Handles : TransportConnect(h)
    \/ \E h \in Handles : TransportDisconnect(h)
    \/ ServerHandles
    \/ ServerDrops

SpecRooms == InitServer /\ [][NextRooms]_vars

\* the rooms of the pairs whose key the client holds as joined
JoinedRooms ==
    {getRoomName(p[1], p[2]) :
        p \in {q \in RoomPairs :
                  InSeq(svc.joinedConversations,
                        socketConversationKey(q[1], q[2]))}}

\* C39 as stated: when the client's socket is connected and the server has
\* handled every event the client emitted, the rooms the server holds for
\* the connection are the rooms of the client's joined set.
C39_ServerRoomsAreJoinedSet ==
    (SocketConnected(ClientState) /\ Handled) =>
        /\ rooms[ServerConn] = JoinedRooms
        /\ Cardinality(JoinedRooms) = Len(svc.joinedConversations)

(* -------------------- connect() after disconnect() -------------------- *)

\* C40 as stated: the connect() call that follows a disconnect() creates a
\* socket and returns it.
C40_ConnectAfterDisconnect ==
    [][\A u \in ConnectIds :
          (/\ called = "disconnect"
           /\ called' = "connect"
           /\ SvcConnect(u)) =>
              /\ Len(transports') = Len(transports) + 1
              /\ transports'[Len(transports')].state = "connecting"
              /\ returned' = Len(transports')
              /\ svc'.socket = returned']_vars

====
